---- MODULE Spec2Model ----
(***************************************************************************)
(* Model of the safe file-mutation pipeline of issue-solver:               *)
(*   FileValidator      (scripts/github-actions-config.js, 259-464)        *)
(*   SafeFileManager    (scripts/safe-file-manager.js, 5-407)              *)
(*   SolutionValidator  (unnamed/part_002, 4-171)                          *)
(*   GeminiIssueSolver  (scripts/gemini-solver.js, generateSolution)       *)
(*   EnhancedWorkflow   (scripts/enhanced-workflow.js)                     *)
(* Strings are TLA+ strings; paths and file bodies are computed on their   *)
(* characters (SubSeq, Len, \o), as the JavaScript code computes them.     *)
(***************************************************************************)
EXTENDS Integers, Sequences, FiniteSets, TLC

(***************************************************************************)
(* String primitives, as the methods of String.prototype                   *)
(***************************************************************************)
CharAt(s, i) == SubSeq(s, i, i)

\* s.startsWith(p)
StartsWith(s, p) == Len(p) <= Len(s) /\ SubSeq(s, 1, Len(p)) = p

\* s.endsWith(p)
EndsWith(s, p) == Len(p) <= Len(s) /\ SubSeq(s, Len(s) - Len(p) + 1, Len(s)) = p

\* the text p stands in s at position i
At(s, i, p) == i >= 1 /\ i + Len(p) - 1 <= Len(s) /\ SubSeq(s, i, i + Len(p) - 1) = p

\* s.includes(p)
Includes(s, p) == \E i \in 1..(Len(s) - Len(p) + 1) : SubSeq(s, i, i + Len(p) - 1) = p

RECURSIVE IndexFrom(_, _, _)
IndexFrom(s, p, i) ==
  IF i + Len(p) - 1 > Len(s) THEN 0
  ELSE IF SubSeq(s, i, i + Len(p) - 1) = p THEN i
  ELSE IndexFrom(s, p, i + 1)

\* s.indexOf(p), 1-based; 0 when p does not occur
IndexOf(s, p) == IndexFrom(s, p, 1)

RECURSIVE LastIndexFrom(_, _, _)
\* the last occurrence of p in s that begins at i or before it, 1-based; 0
\* when there is none.  s.lastIndexOf(p) is LastIndexFrom(s, p, Len(s) - Len(p) + 1)
LastIndexFrom(s, p, i) ==
  IF i < 1 THEN 0
  ELSE IF SubSeq(s, i, i + Len(p) - 1) = p THEN i
  ELSE LastIndexFrom(s, p, i - 1)

LowerChars == "abcdefghijklmnopqrstuvwxyz"

RECURSIVE ToLowerCase(_)
\* s.toLowerCase(): every upper-case letter gives way to its lower-case letter
ToLowerCase(s) ==
  IF s = "" THEN ""
  ELSE LET k == IndexOf("ABCDEFGHIJKLMNOPQRSTUVWXYZ", CharAt(s, 1))
       IN (IF k = 0 THEN CharAt(s, 1) ELSE CharAt(LowerChars, k)) \o ToLowerCase(Tail(s))

\* c is a character of \w
IsWordChar(c) == c # "" /\ Includes(LowerChars \o "0123456789_", ToLowerCase(c))

IsSpaceChar(c) == c \in {" ", "\n", "\t"}

RECURSIVE GetSubstitution(_, _, _)
\* the replacement text of String.prototype.replace for a string pattern:
\* $$ stands for $, $& for the matched text, $' for the text after the match;
\* $1..$99 and $< stay as they are (the pattern has no groups).  The pattern
\* of $ and a backquote (the text before the match) occurs in no text of the
\* model.
GetSubstitution(to, matched, after) ==
  IF to = "" THEN ""
  ELSE IF At(to, 1, "$$") THEN "$" \o GetSubstitution(SubSeq(to, 3, Len(to)), matched, after)
  ELSE IF At(to, 1, "$&") THEN matched \o GetSubstitution(SubSeq(to, 3, Len(to)), matched, after)
  ELSE IF At(to, 1, "$'") THEN after \o GetSubstitution(SubSeq(to, 3, Len(to)), matched, after)
  ELSE CharAt(to, 1) \o GetSubstitution(Tail(to), matched, after)

\* s.replace(from, to) with a string pattern: the first occurrence only
ReplaceFirst(s, from, to) ==
  LET k == IndexOf(s, from) IN
  IF k = 0 THEN s
  ELSE SubSeq(s, 1, k - 1)
         \o GetSubstitution(to, from, SubSeq(s, k + Len(from), Len(s)))
         \o SubSeq(s, k + Len(from), Len(s))

(***************************************************************************)
(* path module of Node (POSIX)                                             *)
(***************************************************************************)
RECURSIVE Split(_)
\* s.split('/')
Split(s) ==
  LET k == IndexOf(s, "/") IN
  IF k = 0 THEN <<s>> ELSE <<SubSeq(s, 1, k - 1)>> \o Split(SubSeq(s, k + 1, Len(s)))

RECURSIVE Join(_)
\* segs.join('/')
Join(segs) ==
  IF Len(segs) = 0 THEN ""
  ELSE IF Len(segs) = 1 THEN segs[1]
  ELSE segs[1] \o "/" \o Join(Tail(segs))

RECURSIVE NormalizeSegs(_, _, _)
\* normalizeString of Node's path: "." and empty segments dropped, ".." pops
NormalizeSegs(segs, acc, allowAboveRoot) ==
  IF Len(segs) = 0 THEN acc
  ELSE LET h == segs[1] IN
       IF h = "" \/ h = "." THEN NormalizeSegs(Tail(segs), acc, allowAboveRoot)
       ELSE IF h = ".."
         THEN IF Len(acc) > 0 /\ acc[Len(acc)] # ".."
                THEN NormalizeSegs(Tail(segs), SubSeq(acc, 1, Len(acc) - 1), allowAboveRoot)
              ELSE IF allowAboveRoot
                THEN NormalizeSegs(Tail(segs), Append(acc, ".."), allowAboveRoot)
              ELSE NormalizeSegs(Tail(segs), acc, allowAboveRoot)
       ELSE NormalizeSegs(Tail(segs), Append(acc, h), allowAboveRoot)

\* path.normalize(p)
PathNormalize(p) ==
  IF p = "" THEN "."
  ELSE LET isAbs == StartsWith(p, "/")
           trail == EndsWith(p, "/")
           body  == Join(NormalizeSegs(Split(p), <<>>, ~isAbs))
       IN IF body = ""
            THEN IF isAbs THEN "/" ELSE IF trail THEN "./" ELSE "."
          ELSE (IF isAbs THEN "/" ELSE "") \o body \o (IF trail THEN "/" ELSE "")

\* process.cwd(): the project root
ProjectRoot == "/r"

\* path.resolve(p)
PathResolve(p) ==
  LET full == IF StartsWith(p, "/") THEN p ELSE ProjectRoot \o "/" \o p
  IN "/" \o Join(NormalizeSegs(Split(full), <<>>, FALSE))

\* path.basename(p)
\* a base name that keeps the directories
WholePath(p) == p

PathBasename(p) ==
  LET segs == SelectSeq(Split(p), LAMBDA x : x # "")
  IN IF Len(segs) = 0 THEN "" ELSE segs[Len(segs)]

\* path.dirname(p)
PathDirname(p) ==
  LET k == LastIndexFrom(p, "/", Len(p)) IN
  IF k = 0 THEN "." ELSE IF k = 1 THEN "/" ELSE SubSeq(p, 1, k - 1)

\* path.extname(p)
PathExtname(p) ==
  LET b == PathBasename(p)
      k == LastIndexFrom(b, ".", Len(b))
  IN IF k <= 1 \/ b = ".." THEN "" ELSE SubSeq(b, k, Len(b))

(***************************************************************************)
(* Values of a solution document                                           *)
(*   an optional string is <<>> (undefined) or <<s>>                       *)
(*   the `content` of a file action is absent, a string, or an object      *)
(*   with the optional fields type, content, from, to                      *)
(***************************************************************************)
None == <<>>
Some(s) == <<s>>

Absent == [k |-> "absent", s |-> "", type |-> None, content |-> None, from |-> None, to |-> None]
StrC(s) == [k |-> "str", s |-> s, type |-> None, content |-> None, from |-> None, to |-> None]
ObjC(t, c, f, o) == [k |-> "obj", s |-> "", type |-> t, content |-> c, from |-> f, to |-> o]

AppendD(c) == ObjC(Some("append"), Some(c), None, None)

\* JavaScript truthiness of a content value
Truthy(c) == c.k = "obj" \/ (c.k = "str" /\ c.s # "")

\* one entry of files[]: path and action are "" when missing
FileAction(p, a, c, ch) == [path |-> p, action |-> a, content |-> c, changes |-> ch]

(***************************************************************************)
(* FileValidator (scripts/github-actions-config.js)                        *)
(***************************************************************************)
ALLOWED_EXTENSIONS ==
  {".js", ".jsx", ".ts", ".tsx", ".json", ".md", ".txt", ".yml", ".yaml",
   ".css", ".scss", ".html", ".xml", ".py", ".rb", ".go", ".java", ".cpp", ".c"}

PROTECTED_PATHS ==
  <<".git/", "node_modules", ".env", ".env.local", ".env.production",
    "package-lock.json", "yarn.lock", "pnpm-lock.yaml", ".gitignore", ".npmrc">>

Valid == [valid |-> TRUE, reason |-> ""]
Invalid(r) == [valid |-> FALSE, reason |-> r]

\* isPathSafe(filePath)
IsPathSafe(filePath) ==
  LET normalized == PathNormalize(filePath)
      resolved == PathResolve(filePath)
      hits == {i \in 1..Len(PROTECTED_PATHS) :
                 Includes(normalized, PROTECTED_PATHS[i]) \/ Includes(resolved, PROTECTED_PATHS[i])}
  IN IF ~StartsWith(resolved, ProjectRoot)
       THEN Invalid("Path is outside project directory")
     ELSE IF Includes(normalized, "..")
       THEN Invalid("Path contains parent directory reference")
     ELSE IF hits # {}
       THEN Invalid("Access to protected path: " \o
                    PROTECTED_PATHS[CHOOSE i \in hits : \A j \in hits : i <= j])
     ELSE Valid

IsAllowedFileType(filePath) ==
  LET ext == ToLowerCase(PathExtname(filePath)) IN
  IF ext = "" THEN Invalid("File must have an extension")
  ELSE IF ext \notin ALLOWED_EXTENSIONS THEN Invalid("File type " \o ext \o " is not allowed")
  ELSE Valid

\* \s* and then the literal lit, from position i
WsThen(s, i, lit) ==
  \E j \in i..(Len(s) + 1) :
     (\A k \in i..(j - 1) : IsSpaceChar(CharAt(s, k))) /\ At(s, j, lit)

\* DANGEROUS_PATTERNS, one predicate per regular expression (no flags)
DangerousPattern(s) ==
  LET Pos == 1..(Len(s) + 1) IN
  IF \E i \in Pos : At(s, i, "process.env.") /\
        \E j \in (i + 13)..(Len(s) + 1) :
           (\A k \in (i + 12)..(j - 1) : IsWordChar(CharAt(s, k))) /\ WsThen(s, j, "=")
    THEN "/process\\.env\\.[\\w_]+\\s*=/"
  ELSE IF \E q1 \in {"'", "\""}, q2 \in {"'", "\""} :
            Includes(s, "require(" \o q1 \o "child_process" \o q2 \o ")")
    THEN "/require\\(['\"]child_process['\"]\\)/"
  ELSE IF \E i \in Pos : At(s, i, "fs.") /\
             \E j \in (i + 4)..(Len(s) + 1) :
                (\A k \in (i + 3)..(j - 1) : IsWordChar(CharAt(s, k))) /\
                \E l \in {"Sync('/", "Sync(\"/"} : At(s, j, l)
    THEN "/fs\\.\\w+Sync\\(['\"]\\//"
  ELSE IF \E i \in Pos : At(s, i, "eval") /\ WsThen(s, i + 4, "(")
    THEN "/eval\\s*\\(/"
  ELSE IF \E i \in Pos : At(s, i, "new") /\
            \E j \in (i + 4)..(Len(s) + 1) :
               (\A k \in (i + 3)..(j - 1) : IsSpaceChar(CharAt(s, k))) /\
               At(s, j, "Function") /\ WsThen(s, j + 8, "(")
    THEN "/new\\s+Function\\s*\\(/"
  ELSE IF \E i \in Pos : At(s, i, "__dirname") /\
            \E j \in (i + 9)..(Len(s) + 1) :
               (\A k \in (i + 9)..(j - 1) : IsSpaceChar(CharAt(s, k))) /\ At(s, j, "+") /\
               (WsThen(s, j + 1, "'..") \/ WsThen(s, j + 1, "\".."))
    THEN "/__dirname\\s*\\+\\s*['\"]\\.\\./"
  ELSE ""

RECURSIVE Balanced(_, _)
\* brackets of s close in order; stack is the string of open brackets
Balanced(s, stack) ==
  IF s = "" THEN stack = ""
  ELSE LET c == CharAt(s, 1) IN
       IF c \in {"(", "[", "{"} THEN Balanced(Tail(s), stack \o c)
       ELSE IF c \in {")", "]", "}"}
         THEN /\ stack # ""
              /\ CharAt(stack, Len(stack)) = (IF c = ")" THEN "(" ELSE IF c = "]" THEN "[" ELSE "{")
              /\ Balanced(Tail(s), SubSeq(stack, 1, Len(stack) - 1))
       ELSE Balanced(Tail(s), stack)

\* isContentSafe(content, filePath); content is a truthy string or object.
\* text is String(content), what a RegExp test or a template literal sees.
\* jsOk: new vm.Script(text) succeeds; the V8 parser is approximated on the
\* bodies the model writes: brackets balance and no two words stand side by
\* side on one line ("[object Object]" is rejected, as by V8).
\* jsonOk: JSON.parse(text) succeeds; approximated: a JSON text of the model
\* is an object or array literal with balanced brackets, a number or a
\* literal name.
IsContentSafe(content, filePath) ==
  LET text == IF content.k = "str" THEN content.s
              ELSE IF content.k = "obj" THEN "[object Object]" ELSE "undefined"
      pat  == DangerousPattern(text)
      ext  == ToLowerCase(PathExtname(filePath))
      jsOk ==
        /\ Balanced(text, "")
        /\ ~\E i \in 2..(Len(text) - 1) :
              /\ CharAt(text, i) = " "
              /\ IsWordChar(CharAt(text, i - 1))
              /\ IsWordChar(CharAt(text, i + 1))
      jsonOk ==
        \/ text \in {"true", "false", "null", "0", "1"}
        \/ /\ Len(text) >= 2
           /\ \/ CharAt(text, 1) = "{" /\ CharAt(text, Len(text)) = "}"
              \/ CharAt(text, 1) = "[" /\ CharAt(text, Len(text)) = "]"
           /\ Balanced(text, "")
  IN IF pat # "" THEN Invalid("Dangerous pattern detected: " \o pat)
     ELSE IF filePath = "" THEN Valid
     ELSE IF ext \in {".js", ".jsx"} /\ ~jsOk
       THEN Invalid("JavaScript syntax error")
     ELSE IF ext = ".json" /\ content.k = "str" /\ ~jsonOk
       THEN Invalid("JSON syntax error")
     ELSE Valid


ValidateFileOperation(operation) ==
  LET pathValidation == IsPathSafe(operation.path)
      typeValidation == IsAllowedFileType(operation.path)
      contentValidation == IsContentSafe(operation.content, operation.path)
  IN IF ~pathValidation.valid THEN pathValidation
     ELSE IF ~typeValidation.valid THEN typeValidation
     ELSE IF operation.action = "delete" /\ PathBasename(operation.path) \in {"package.json", "README.md", "LICENSE"}
       THEN Invalid("Cannot delete critical file: " \o PathBasename(operation.path))
     ELSE IF operation.action \in {"create", "modify"} /\ Truthy(operation.content)
               /\ ~contentValidation.valid
       THEN contentValidation
     ELSE Valid

(***************************************************************************)
(* The file system: f maps the absolute path of every regular file to its  *)
(* body, d is the set of directories.  Relative paths resolve against the  *)
(* working directory, as in fs.*Sync.                                      *)
(***************************************************************************)
EmptyMap == [x \in {} |-> ""]

ExistsSync(f, d, p) == PathResolve(p) \in DOMAIN f \/ PathResolve(p) \in d

ReadFileSync(f, p) == f[PathResolve(p)]

\* fs.writeFileSync(p, body)
WriteFileSync(f, p, body) ==
  [q \in DOMAIN f \cup {PathResolve(p)} |-> IF q = PathResolve(p) THEN body ELSE f[q]]

\* fs.unlinkSync(p)
UnlinkSync(f, p) == [q \in DOMAIN f \ {PathResolve(p)} |-> f[q]]

\* fs.mkdirSync(p, {recursive: true})
MkdirRecursive(d, p) ==
  LET segs == SelectSeq(Split(PathResolve(p)), LAMBDA x : x # "")
  IN d \cup {"/"} \cup {"/" \o Join(SubSeq(segs, 1, k)) : k \in 1..Len(segs)}

\* existence and body of the file at p: <<>> when there is none
FileState(f, p) == IF PathResolve(p) \in DOMAIN f THEN <<f[PathResolve(p)]>> ELSE <<>>

\* new Date().toISOString() at clock reading t, ':' and '.' replaced by '-'
RECURSIVE NatToString(_)
NatToString(n) == IF n < 10 THEN CharAt("0123456789", n + 1)
                  ELSE NatToString(n \div 10) \o CharAt("0123456789", (n % 10) + 1)
Timestamp(t) == "T" \o NatToString(t) \o "Z"

(***************************************************************************)
(* FileValidator.createBackup / restoreFromBackup                          *)
(***************************************************************************)
BackupDir == ProjectRoot \o "/.gemini-backups"

\* result: backupPath is <<>> for null
CreateBackup(f, d, t, filePath) ==
  IF ~ExistsSync(f, d, filePath)
    THEN [fs |-> f, dirs |-> d, backupPath |-> None]
  ELSE LET d1 == IF ExistsSync(f, d, BackupDir) THEN d ELSE MkdirRecursive(d, BackupDir)
           bp == BackupDir \o "/" \o PathBasename(filePath) \o "." \o Timestamp(t) \o ".backup"
       IN IF PathResolve(filePath) \in DOMAIN f
            THEN [fs |-> WriteFileSync(f, bp, ReadFileSync(f, filePath)), dirs |-> d1,
                  backupPath |-> Some(bp)]
          ELSE [fs |-> f, dirs |-> d1, backupPath |-> None]

\* result: ok is the return value (false when the copy failed)
RestoreFromBackup(f, backupPath, originalPath) ==
  IF PathResolve(backupPath) \notin DOMAIN f
    THEN [fs |-> f, ok |-> FALSE]
  ELSE [fs |-> WriteFileSync(f, originalPath, ReadFileSync(f, backupPath)), ok |-> TRUE]

(***************************************************************************)
(* SafeFileManager (scripts/safe-file-manager.js): the file operations.    *)
(* Each returns [threw, error, fs, dirs, rec]; rec is the execution        *)
(* record {action, path} (action "" when the call threw).                  *)
(* e is process.env: SAFETY_MODE, KEEP_BACKUPS, FORCE_OVERWRITE, ...       *)
(***************************************************************************)
Returned(f, d, a, p) == [threw |-> FALSE, error |-> "", fs |-> f, dirs |-> d,
                         rec |-> [action |-> a, path |-> p]]
Threw(f, d, msg, p) == [threw |-> TRUE, error |-> msg, fs |-> f, dirs |-> d,
                        rec |-> [action |-> "", path |-> p]]

\* String(x) of an optional string field
StrOf(o) == IF o = None THEN "undefined" ELSE o[1]

RECURSIVE CountOf(_, _)
\* number of occurrences of the character c in s
CountOf(s, c) == IF s = "" THEN 0
                 ELSE (IF CharAt(s, 1) = c THEN 1 ELSE 0) + CountOf(Tail(s), c)

SimpleMaxLength == 500
SimpleMaxLines == 100

\* codePatterns of isSimpleImplementationRequest
HasCodePattern(s) ==
  LET Pos == 1..(Len(s) + 1)
      low == ToLowerCase(s)
      \* \s+ and then a word character, from position i
      Ws1Word(i) ==
        \E j \in (i + 1)..Len(s) :
           (\A k \in i..(j - 1) : IsSpaceChar(CharAt(s, k))) /\ IsWordChar(CharAt(s, j))
  IN \/ \E i \in Pos : At(s, i, "function") /\ Ws1Word(i + 8)
     \/ \E i \in Pos : At(s, i, "const") /\
           \E j \in (i + 6)..Len(s) :
              (\A k \in (i + 5)..(j - 1) : IsSpaceChar(CharAt(s, k))) /\
              \E m \in (j + 1)..(Len(s) + 1) :
                 (\A k \in j..(m - 1) : IsWordChar(CharAt(s, k))) /\ WsThen(s, m, "=")
     \/ \E i \in Pos : At(s, i, "class") /\ Ws1Word(i + 5)
     \/ \E i \in Pos : At(s, i, "import") /\ IsSpaceChar(CharAt(s, i + 6))
     \/ \E i \in Pos : At(s, i, "export") /\ IsSpaceChar(CharAt(s, i + 6))
     \/ Includes(s, "console.log")
     \/ \E i \in Pos : At(low, i, "hello") /\
           \E j \in (i + 5)..(Len(s) + 1) :
              (\A k \in (i + 5)..(j - 1) :
                  IsSpaceChar(CharAt(s, k)) \/ IsWordChar(CharAt(s, k))) /\ At(low, j, "world")
     \/ \E i \in Pos : At(s, i, "<") /\ IsWordChar(CharAt(s, i + 1)) /\
           \E j \in (i + 2)..Len(s) :
              CharAt(s, j) = ">" /\ \A k \in (i + 1)..(j - 1) : CharAt(s, k) # ">"

\* isSimpleImplementationRequest(changes)
IsSimpleImplementationRequest(changes) ==
  IF changes.k # "str" THEN FALSE
  ELSE HasCodePattern(changes.s) /\ Len(changes.s) < SimpleMaxLength

\* isSimpleFileCreation(filePath, content); content is a string or absent
IsSimpleFileCreation(filePath, content) ==
  LET fileName == ToLowerCase(PathBasename(filePath))
      text == IF Truthy(content) THEN content.s ELSE ""
      contentLower == ToLowerCase(text)
  IN \/ Includes(fileName, "hello") \/ Includes(contentLower, "hello world")
        \/ Includes(contentLower, "hello, world")
     \/ Truthy(content) /\ CountOf(text, "\n") + 1 < SimpleMaxLines
     \/ Includes(fileName, "test") \/ Includes(fileName, "sample") \/ Includes(fileName, "example")

TimestampComment(filePath, t) ==
  LET fileExt == PathExtname(filePath) IN
  IF fileExt \in {".ts", ".js"} THEN "// Updated: " \o Timestamp(t) \o "\n"
  ELSE IF fileExt = ".py" THEN "# Updated: " \o Timestamp(t) \o "\n"
  ELSE "<!-- Updated: " \o Timestamp(t) \o " -->\n"

\* createFile(filePath, content)
CreateFile(f, d, e, t, filePath, content) ==
  LET dir == PathDirname(filePath)
      d1  == IF ExistsSync(f, d, dir) THEN d ELSE MkdirRecursive(d, dir)
      newContent == IF Truthy(content) THEN content.s ELSE ""
  IN IF content.k = "obj"
       \* (content || '').toLowerCase / writeFileSync reject a non-string
       THEN Threw(f, d1, "TypeError", filePath)
     ELSE IF ExistsSync(f, d1, filePath)
       THEN IF e.FORCE_OVERWRITE # "true" /\ ~IsSimpleFileCreation(filePath, content)
              THEN Threw(f, d1, "File already exists. Use modify action or set FORCE_OVERWRITE=true",
                         filePath)
            ELSE IF PathResolve(filePath) \notin DOMAIN f
              THEN Threw(f, d1, "EISDIR", filePath)
            ELSE IF ReadFileSync(f, filePath) = newContent
              THEN Returned(WriteFileSync(f, filePath, TimestampComment(filePath, t) \o newContent),
                            d1, "created", filePath)
            ELSE Returned(WriteFileSync(f, filePath, newContent), d1, "created", filePath)
     ELSE Returned(WriteFileSync(f, filePath, newContent), d1, "created", filePath)

\* modifyFile(filePath, changes) under the safety mode; changes is absent, a
\* string or an object
ModifyFileIn(f, d, safetyMode, filePath, changes) ==
  LET currentContent == ReadFileSync(f, filePath)
      isSimpleImplementation == IsSimpleImplementationRequest(changes)
      Write(newContent) == Returned(WriteFileSync(f, filePath, newContent), d, "modified", filePath)
  IN IF ~ExistsSync(f, d, filePath)
       THEN Threw(f, d, "File does not exist. Use create action instead.", filePath)
     ELSE IF PathResolve(filePath) \notin DOMAIN f
       THEN Threw(f, d, "EISDIR", filePath)
     ELSE IF changes.k = "str"
       THEN IF safetyMode = "safe" /\ ~isSimpleImplementation
              THEN Threw(f, d, "Unsafe modify operation: string content not allowed in safe mode.",
                         filePath)
            ELSE IF isSimpleImplementation \/ safetyMode = "fast"
              THEN Write(changes.s)
            ELSE Write(currentContent \o "\n\n" \o changes.s)
     ELSE IF changes.k = "obj" /\ changes.type = Some("append")
       THEN Write(currentContent \o "\n" \o StrOf(changes.content))
     ELSE IF changes.k = "obj" /\ changes.type = Some("prepend")
       THEN Write(StrOf(changes.content) \o "\n" \o currentContent)
     ELSE IF changes.k = "obj" /\ changes.type = Some("replace")
       THEN Write(ReplaceFirst(currentContent, StrOf(changes.from), StrOf(changes.to)))
     ELSE IF changes.k = "obj" /\ changes.type = Some("full-replace")
       THEN IF changes.content = None
              THEN Threw(f, d, "TypeError", filePath)
            ELSE Write(changes.content[1])
     ELSE Threw(f, d, "Invalid changes format. Expected object with type property or string for simple implementations.",
                filePath)

\* modifyFile that never reads SAFETY_MODE and always runs in normal mode
ModifyFileIgnoringSafetyMode(f, d, e, filePath, changes) ==
  ModifyFileIn(f, d, "normal", filePath, changes)

\* modifyFile that handles the content of a directive as a plain string in
\* normal mode: joined after a blank line
ModifyFileJoiningWithBlankLine(f, d, e, filePath, changes) ==
  ModifyFileIn(f, d, "normal", filePath,
               IF changes.k = "obj" THEN StrC(StrOf(changes.content)) ELSE changes)

\* modifyFile(filePath, changes): const safetyMode = process.env.SAFETY_MODE || 'normal'
ModifyFile(f, d, e, filePath, changes) ==
  ModifyFileIn(f, d, IF e.SAFETY_MODE = "" THEN "normal" ELSE e.SAFETY_MODE, filePath, changes)

\* deleteFile that throws when the file is missing
DeleteFileThrowingOnMissing(f, d, filePath) ==
  IF PathResolve(filePath) \notin DOMAIN f THEN Threw(f, d, "File not found", filePath)
  ELSE Returned(UnlinkSync(f, filePath), d, "deleted", filePath)

\* deleteFile(filePath)
DeleteFile(f, d, filePath) ==
  IF ~ExistsSync(f, d, filePath) THEN Returned(f, d, "skipped", filePath)
  ELSE IF PathResolve(filePath) \notin DOMAIN f THEN Threw(f, d, "EISDIR", filePath)
  ELSE Returned(UnlinkSync(f, filePath), d, "deleted", filePath)

\* the action executeSingleOperation dispatches on, after the adjustment
AdjustedAction(f, d, operation) ==
  IF operation.action = "create" /\ ExistsSync(f, d, operation.path) THEN "modify"
  ELSE IF operation.action = "modify" /\ ~ExistsSync(f, d, operation.path) THEN "create"
  ELSE operation.action

\* content || changes
ModifyPayload(operation) ==
  IF Truthy(operation.content) THEN operation.content
  ELSE IF operation.changes = None THEN Absent
  ELSE StrC(operation.changes[1])

\* executeSingleOperation(operation)
ExecuteSingleOperation(f, d, e, t, operation) ==
  LET action == AdjustedAction(f, d, operation) IN
  IF action = "create" THEN CreateFile(f, d, e, t, operation.path, operation.content)
  ELSE IF action = "modify" THEN ModifyFile(f, d, e, operation.path, ModifyPayload(operation))
  ELSE IF action = "delete" THEN DeleteFile(f, d, operation.path)
  ELSE Threw(f, d, "Unknown action: " \o action, operation.path)

\* isWorkflowFile(filePath)
IsWorkflowFile(filePath) ==
  Includes(filePath, ".github/workflows/") /\ (EndsWith(filePath, ".yml") \/ EndsWith(filePath, ".yaml"))

\* the error entry pushed for the validator's verdict on the path, "" for none
ValidationEntry(filePath, validation) ==
  IF ~validation.valid THEN filePath \o ": " \o validation.reason ELSE ""

\* the error entry validateAllOperations pushes for one operation, "" for none
ValidationErrorOf(operation) ==
  IF IsWorkflowFile(operation.path)
    THEN operation.path \o ": GitHub App workflow files require 'workflows' permission"
  ELSE ValidationEntry(operation.path, ValidateFileOperation(operation))

\* the result of validateAllOperations with the errors
ValidationResult(errors) == [valid |-> Len(errors) = 0, errors |-> errors]

\* validateAllOperations that looks at the first operation only
ValidateFirstOperationOnly(operations) ==
  ValidationResult(SelectSeq([i \in 1..(IF Len(operations) > 0 THEN 1 ELSE 0) |->
                                ValidationErrorOf(operations[i])],
                             LAMBDA x : x # ""))

\* validateAllOperations(operations)
\* a validation that stops at the first failing operation
ValidateUntilFirstFailure(operations) ==
  ValidationResult(SelectSeq([i \in 1..Len(operations) |->
                                IF \E j \in 1..(i - 1) : ValidationErrorOf(operations[j]) # "" THEN ""
                                ELSE ValidationErrorOf(operations[i])],
                             LAMBDA x : x # ""))

ValidateAllOperations(operations) ==
  ValidationResult(SelectSeq([i \in 1..Len(operations) |-> ValidationErrorOf(operations[i])],
                             LAMBDA x : x # ""))

RECURSIVE JoinWith(_, _)
\* errors.join(sep)
JoinWith(xs, sep) ==
  IF Len(xs) = 0 THEN "" ELSE IF Len(xs) = 1 THEN xs[1]
  ELSE xs[1] \o sep \o JoinWith(Tail(xs), sep)

RECURSIVE RollbackFrom(_, _, _, _, _)
\* the loop of rollback: entries i, i-1, ..., 1 of the pending ledger.
\* failing is the set of entries whose unlinkSync or copyFileSync throws: the
\* error is caught (line 323, or line 459 of restoreFromBackup), the entry is
\* left as it is and the loop goes on
RollbackFrom(f, pending, bk, failing, i) ==
  IF i = 0 THEN f
  ELSE LET operation == pending[i]
           f1 == IF i \in failing THEN f
                 ELSE IF operation.action = "create"
                   THEN IF PathResolve(operation.path) \in DOMAIN f
                          THEN UnlinkSync(f, operation.path) ELSE f
                 ELSE IF operation.action \in {"modify", "delete"}
                   THEN IF operation.path \in DOMAIN bk
                          THEN RestoreFromBackup(f, bk[operation.path], operation.path).fs
                        ELSE f
                 ELSE f
       IN RollbackFrom(f1, pending, bk, failing, i - 1)

\* a rollback that walks the ledger from its first entry to its last
RollbackInLedgerOrder(f, pending, bk) ==
  RollbackFrom(f, [j \in 1..Len(pending) |-> pending[Len(pending) + 1 - j]], bk, {}, Len(pending))

\* rollback(): the file system it leaves when no call of the file system fails
Rollback(f, pending, bk) == RollbackFrom(f, pending, bk, {}, Len(pending))

\* cleanupBackups(): the file system it leaves
CleanupBackups(f, bk) ==
  [q \in DOMAIN f \ {PathResolve(bk[p]) : p \in DOMAIN bk} |-> f[q]]

(***************************************************************************)
(* SolutionValidator.  A solution is an object with an optional files      *)
(* array, or a value that is no object.  The error texts are English       *)
(* renderings of the messages of the code.                                 *)
(***************************************************************************)
\* a solution object: files is None or Some(a sequence of file actions)
Solution(files, confidence, implementation) ==
  [k |-> "obj", files |-> files, confidence |-> confidence, implementation |-> implementation]

\* solution.files of a solution whose files is an array, <<>> otherwise
FilesOf(solution) == IF solution.files = None THEN <<>> ELSE solution.files[1]

\* validateModifyContent(content): "" when valid, the error otherwise
ValidateModifyContent(content) ==
  IF content.k = "str"
    THEN "string content is not allowed for the modify action; use {type: append/prepend/replace, ...}"
  ELSE IF content.k = "obj"
    THEN IF (content.type = None \/ content.type = Some(""))
           THEN "content.type is required (append/prepend/replace)"
         ELSE IF content.type[1] \notin {"append", "prepend", "replace"}
           THEN "content.type must be one of append/prepend/replace"
         ELSE IF content.type[1] \in {"append", "prepend"} /\ content.content = None
           THEN content.type[1] \o " requires content.content as a string"
         ELSE IF content.type[1] = "replace" /\ (content.from = None \/ content.to = None)
           THEN "replace requires content.from and content.to as strings"
         ELSE ""
  ELSE "the content of the modify action must be an object of the proper form"

\* validateFileAction(fileAction, index): the errors it returns
ValidateFileAction(fileAction, index) ==
  LET prefix == "files[" \o NatToString(index) \o "]"
      contentError == ValidateModifyContent(fileAction.content)
  IN (IF fileAction.path = "" THEN <<prefix \o ": the path field is required">> ELSE <<>>) \o
     (IF fileAction.action = "" THEN <<prefix \o ": the action field is required">>
      ELSE IF fileAction.action \notin {"create", "modify", "delete"}
        THEN <<prefix \o ": action must be one of create/modify/delete">>
      ELSE <<>>) \o
     (IF fileAction.action = "modify" /\ ~Truthy(fileAction.content) /\ (fileAction.changes = None \/ fileAction.changes = Some(""))
        THEN <<prefix \o ": the modify action requires content or changes">> ELSE <<>>) \o
     (IF fileAction.action = "modify" /\ Truthy(fileAction.content) /\ contentError # ""
        THEN <<prefix \o ": " \o contentError>> ELSE <<>>) \o
     (IF fileAction.action = "create" /\ ~Truthy(fileAction.content)
        THEN <<prefix \o ": the create action requires content">> ELSE <<>>)

RECURSIVE FileActionErrors(_, _)
\* the forEach of validateSolution over files, from index i on
FileActionErrors(files, i) ==
  IF i > Len(files) THEN <<>>
  ELSE ValidateFileAction(files[i], i - 1) \o FileActionErrors(files, i + 1)

\* validateSolution(solution)
ValidateSolution(solution) ==
  IF solution.k # "obj"
    THEN [valid |-> FALSE, errors |-> <<"the solution must be an object">>]
  ELSE LET errors == FileActionErrors(FilesOf(solution), 1)
       IN [valid |-> Len(errors) = 0, errors |-> errors]

(***************************************************************************)
(* GeminiIssueSolver.  The issue texts are ASCII, so the Japanese keywords *)
(* of analyzeIssueContent never occur in them.  A response of the LLM is   *)
(* its text together with what JSON.parse makes of the text and of the     *)
(* JSON block inside it (None when it throws), or an API failure.          *)
(***************************************************************************)
RECURSIVE RunEnd(_, _)
\* the end of the run of word characters of text that starts at i
RunEnd(text, i) ==
  IF i < Len(text) /\ IsWordChar(CharAt(text, i + 1)) THEN RunEnd(text, i + 1) ELSE i

RECURSIVE FirstCandidate(_, _)
\* text.match(/\b[a-z]+\b/g) filtered: the first word of lower-case letters,
\* longer than 3, that is none of test/file/code/impl, from position i on
FirstCandidate(text, i) ==
  IF i > Len(text) THEN ""
  ELSE IF ~IsWordChar(CharAt(text, i)) THEN FirstCandidate(text, i + 1)
  ELSE LET j == RunEnd(text, i)
           w == SubSeq(text, i, j)
       IN IF (\A k \in i..j : Includes(LowerChars, CharAt(text, k))) /\ Len(w) > 3
               /\ w \notin {"test", "file", "code", "impl"}
            THEN w
          ELSE FirstCandidate(text, j + 1)

\* extractFeatureName(text)
ExtractFeatureName(text) ==
  IF FirstCandidate(text, 1) = "" THEN "feature" ELSE FirstCandidate(text, 1)

\* the technologies analyzeIssueContent detects
TechnologiesOf(text) ==
  (IF Includes(text, ".ts") \/ Includes(text, "typescript") THEN {"TypeScript"} ELSE {}) \cup
  (IF Includes(text, ".js") \/ Includes(text, "javascript") THEN {"JavaScript"} ELSE {}) \cup
  (IF Includes(text, ".py") \/ Includes(text, "python") THEN {"Python"} ELSE {}) \cup
  (IF Includes(text, ".java") THEN {"Java"} ELSE {}) \cup
  (IF Includes(text, "react") THEN {"React"} ELSE {}) \cup
  (IF Includes(text, "node") \/ Includes(text, "npm") THEN {"Node.js"} ELSE {})

\* suggestedFiles of the feature branch of analyzeIssueContent
FeatureFiles(text, technologies, hasSourceDir) ==
  LET src == IF hasSourceDir THEN "src/" ELSE "" IN
  IF Includes(text, "hello world")
    THEN IF "TypeScript" \in technologies THEN <<src \o "hello.ts">>
         ELSE IF "JavaScript" \in technologies THEN <<src \o "hello.js">>
         ELSE IF "Python" \in technologies THEN <<"hello.py">>
         ELSE <<>>
  ELSE IF "TypeScript" \in technologies THEN <<src \o ExtractFeatureName(text) \o ".ts">>
  ELSE IF "JavaScript" \in technologies THEN <<src \o ExtractFeatureName(text) \o ".js">>
  ELSE <<>>

\* analyzeIssueContent() for the issue with the title and the body
AnalyzeIssueContent(title, body, hasSourceDir) ==
  LET text == ToLowerCase(title \o " " \o body)
      technologies == TechnologiesOf(text)
      testExt == IF "TypeScript" \in technologies THEN ".ts" ELSE ".js"
  IN IF Includes(text, "test")
       THEN [type |-> "test", needsImplementation |-> TRUE, technologies |-> technologies,
             suggestedFiles |-> <<"tests/feature.test" \o testExt, "tests/unit.test" \o testExt>>]
     ELSE IF Includes(text, "bug") \/ Includes(text, "error")
       THEN [type |-> "bug_fix", needsImplementation |-> FALSE, technologies |-> technologies,
             suggestedFiles |-> <<>>]
     ELSE IF Includes(text, "implementation") \/ Includes(text, "create")
               \/ Includes(text, "hello world") \/ technologies # {}
       THEN [type |-> "feature", needsImplementation |-> TRUE, technologies |-> technologies,
             suggestedFiles |-> FeatureFiles(text, technologies, hasSourceDir)]
     ELSE [type |-> "enhancement", needsImplementation |-> FALSE, technologies |-> technologies,
           suggestedFiles |-> <<>>]

\* guessPrimaryFile(analysisResult)
GuessPrimaryFile(analysisResult, hasSourceDir) ==
  LET src == IF hasSourceDir THEN "src/" ELSE "" IN
  IF "TypeScript" \in analysisResult.technologies THEN src \o "index.ts"
  ELSE IF "JavaScript" \in analysisResult.technologies THEN src \o "index.js"
  ELSE IF "Python" \in analysisResult.technologies THEN "main.py"
  ELSE "README.md"

RECURSIVE SkipSpaces(_, _)
\* the position after the white space of s that starts at i
SkipSpaces(s, i) ==
  IF i <= Len(s) /\ IsSpaceChar(CharAt(s, i)) THEN SkipSpaces(s, i + 1) ELSE i

RECURSIVE Trim(_)
\* s.trim()
Trim(s) ==
  IF s = "" THEN ""
  ELSE IF IsSpaceChar(CharAt(s, 1)) THEN Trim(Tail(s))
  ELSE IF IsSpaceChar(CharAt(s, Len(s))) THEN Trim(SubSeq(s, 1, Len(s) - 1))
  ELSE s

\* the code fence of three backquotes, written with apostrophes here
Fence == "'''"

\* the first match of the code block pattern (fence, optional language tag,
\* white space, lazy body, fence): [found, body], body being the text the two
\* replace calls leave
FirstCodeBlock(responseText) ==
  LET open == IndexOf(responseText, Fence)
      tag == open + 3
      \* the position after the fence, the optional language tag and the white space
      start == SkipSpaces(responseText,
                          IF At(responseText, tag, "typescript") THEN tag + 10
                          ELSE IF At(responseText, tag, "javascript") THEN tag + 10
                          ELSE IF At(responseText, tag, "python") THEN tag + 6
                          ELSE tag)
      close == IF open = 0 THEN 0 ELSE IndexFrom(responseText, Fence, start)
  IN IF close = 0 THEN [found |-> FALSE, body |-> "", match |-> ""]
     ELSE [found |-> TRUE, body |-> SubSeq(responseText, start, close - 1),
           match |-> SubSeq(responseText, open, close + 2)]

\* extractKeyInformation(responseText) = createFallbackSolution(responseText)
ExtractKeyInformation(responseText, analysisResult, hasSourceDir) ==
  LET block == FirstCodeBlock(responseText)
      suggestedPath == IF Len(analysisResult.suggestedFiles) > 0
                         THEN analysisResult.suggestedFiles[1]
                       ELSE GuessPrimaryFile(analysisResult, hasSourceDir)
      files == IF analysisResult.needsImplementation /\ block.found
                 THEN <<FileAction(suggestedPath, "create", StrC(Trim(block.body)),
                                   Some("create a new file"))>>
               ELSE <<>>
  IN Solution(Some(files), "medium",
              Some(IF block.found THEN block.match ELSE responseText))

\* createFallbackSolution(responseText)
CreateFallbackSolution(responseText, issue) ==
  ExtractKeyInformation(responseText,
                        AnalyzeIssueContent(issue.title, issue.body, issue.hasSourceDir),
                        issue.hasSourceDir)

\* parseGeminiResponse(responseText)
ParseGeminiResponse(response, analysisResult, hasSourceDir) ==
  IF response.json # None THEN response.json[1]
  ELSE IF response.block # None THEN response.block[1]
  ELSE ExtractKeyInformation(response.text, analysisResult, hasSourceDir)

\* an LLM call that answers the text; json is what JSON.parse(text) returns
TextResponse(text, json) == [kind |-> "text", text |-> text, json |-> json, block |-> None]

\* this.config.geminiMaxRetries || 3
MaxRetriesOf(geminiMaxRetries) ==
  IF geminiMaxRetries = 0 THEN 3 ELSE geminiMaxRetries

RECURSIVE GenerateSolutionFrom(_, _, _, _, _)
\* lines 124-155 of the attempt: this.solution is the parsed answer; it is
\* returned when valid, the next attempt follows when it is not, and after
\* the last attempt the throw of line 133 is caught at line 143 and the
\* fallback solution is returned
Accepted(attempt, maxRetries, responses, issue, parsed, validation) ==
  IF validation.valid
    THEN [threw |-> FALSE, assigned |-> Some([solution |-> parsed, validation |-> validation]),
          calls |-> attempt]
  ELSE IF attempt < maxRetries
    THEN GenerateSolutionFrom(attempt + 1, maxRetries, responses, issue,
                              Some([solution |-> parsed, validation |-> validation]))
  ELSE [threw |-> FALSE,
        assigned |-> Some([solution |-> CreateFallbackSolution(responses[attempt].text, issue),
                           validation |-> validation]),
        calls |-> attempt]

\* the loop of generateSolution from the attempt on: responses[attempt] is
\* the answer of the LLM call of the attempt; assigned is the last value the
\* call assigned to this.solution, with the validator's verdict on it, None
\* when it assigned nothing.  The result says whether generateSolution threw
\* or returned, and what it assigned.
GenerateSolutionFrom(attempt, maxRetries, responses, issue, assigned) ==
  IF attempt > maxRetries
    THEN [threw |-> TRUE, assigned |-> assigned, calls |-> maxRetries]
  ELSE IF responses[attempt].kind = "error"
    THEN GenerateSolutionFrom(attempt + 1, maxRetries, responses, issue, assigned)
  ELSE Accepted(attempt, maxRetries, responses, issue,
                ParseGeminiResponse(responses[attempt],
                                    AnalyzeIssueContent(issue.title, issue.body, issue.hasSourceDir),
                                    issue.hasSourceDir),
                ValidateSolution(
                  ParseGeminiResponse(responses[attempt],
                                      AnalyzeIssueContent(issue.title, issue.body, issue.hasSourceDir),
                                      issue.hasSourceDir)))

\* generateSolution(), the LLM answering the responses to the issue
GenerateSolution(issue, geminiMaxRetries, responses) ==
  GenerateSolutionFrom(1, MaxRetriesOf(geminiMaxRetries), responses, issue, None)

(***************************************************************************)
(* EnhancedWorkflow: pure parts                                            *)
(***************************************************************************)
\* validateSolution(solution) of the workflow: TRUE when it throws
WorkflowValidationThrows(solution, e, config) ==
  LET files == FilesOf(solution)
      systemFiles == {i \in 1..Len(files) :
                        \/ Includes(files[i].path, "node_modules")
                        \/ Includes(files[i].path, ".git")
                        \/ StartsWith(files[i].path, "/")}
      issues == \/ Len(files) > 50
                \/ systemFiles # {}
                \/ solution.confidence = "low" /\ ~config.forceImplementation
  IN issues /\ e.STRICT_MODE = "true"

\* find . -name "*.js" -o -name "*.jsx" -o -name "*.ts" -o -name "*.tsx"
HasJavaScriptFiles(f) ==
  \E q \in DOMAIN f :
     /\ StartsWith(q, ProjectRoot \o "/")
     /\ \E x \in {".js", ".jsx", ".ts", ".tsx"} : EndsWith(q, x)

\* find . -name "*.py"
HasPythonFiles(f) ==
  \E q \in DOMAIN f : StartsWith(q, ProjectRoot \o "/") /\ EndsWith(q, ".py")

(***************************************************************************)
(* State                                                                   *)
(***************************************************************************)
VARIABLES
  fs,                 \* regular files: absolute path -> body
  dirs,               \* directories
  now,                \* the clock read by new Date()
  env,                \* process.env
  dryRun,             \* SafeFileManager.dryRun, read from DRY_RUN by the constructor
  pendingOperations,  \* SafeFileManager.pendingOperations
  backups,            \* SafeFileManager.backups: operation path -> backup path
  tx,                 \* the safeExecute call of each async task: position, arguments, outcome
  last,               \* the last call of createFile / modifyFile / deleteFile
  solver,             \* GeminiIssueSolver: issue, solution, the validator's last verdict
  wf,                 \* EnhancedWorkflow: position, checkpoints, verification steps
  twin,               \* the outcome of the same call on an identical tree, kept for comparison
  gen,                \* the generateSolution call: loop position, LLM calls, timers, promises
  statusManager,      \* StatusCommentManager and the issue's comments on GitHub
  main                \* main / enhancedMain: position, test loop, caught error, outcome

vars == <<fs, dirs, now, env, dryRun, pendingOperations, backups, tx, last, solver, wf, twin,
          gen, statusManager, main>>

(***************************************************************************)
(* Bounds and input sets                                                   *)
(***************************************************************************)
MaxOps == 2
MaxClock == 2
\* GEMINI_MAX_RETRIES and TEST_MAX_RETRIES of the modelled runs
MaxRetries == 2
MaxTestRetries == 2
\* the longest files[] of the solutions given to SolutionValidator
MaxFiles == 2

\* the async tasks of a run: the caller of execute() and the verification
\* steps that verifySolution starts in parallel
Tasks == {"main", "runJavaScriptChecks", "runPythonChecks", "runTests", "runLinter"}

IdleTx == [pc |-> "idle", ops |-> <<>>, i |-> 0, results |-> <<>>, error |-> "",
           failedAt |-> 0, pre |-> EmptyMap, preDirs |-> {}, undoFailed |-> {},
           simulated |-> <<>>, restored |-> {}]

\* a solver before analyzeIssue and generateSolution
NoSolver == [issue |-> "", solution |-> None, validation |-> None, calls |-> 0]

\* the configuration of a run (ConfigManager)
WorkflowConfig ==
  [runTests |-> TRUE, testMaxRetries |-> MaxTestRetries, geminiMaxRetries |-> MaxRetries,
   forceImplementation |-> FALSE, generateReport |-> TRUE, issueNumber |-> "1"]

\* no workflow is running.  pc is the position of execute(); steps is the
\* state of the promise of each verification step; attempt and testPc are
\* the loop counter and the position of runTests, runs the outcomes of the
\* test command and cycles the re-analysis cycles begun; pre is the tree
\* execute() started on, touched the paths of the transactions that
\* returned, committed their number.
NoWorkflow == [pc |-> "off", checkpoints |-> <<>>, steps |-> [t \in (Tasks \ {"main"}) |-> "none"],
               attempt |-> 0, testPc |-> "", runs |-> <<>>, cycles |-> 0, pre |-> EmptyMap,
               touched |-> {}, committed |-> 0]

NoTwin == [stage |-> "first", ops |-> <<>>, fs |-> EmptyMap]

\* no generateSolution call is in progress.  call, timer and promise have one
\* entry per attempt: the promise of the generateContent call, the timer and
\* the promise of its callGeminiWithTimeout
NoGen == [pc |-> "off", maxRetries |-> 0, attempt |-> 0, call |-> <<>>, timer |-> <<>>,
          promise |-> <<>>, lastError |-> None, error |-> ""]

\* no status manager.  commentId 0 is null, issueNumber 0 is undefined;
\* comments are the issue's comments on GitHub, the id of a comment being its
\* index; status, prev and calls are the argument of the last updateStatus,
\* the commentId it started with and the API calls it made
NoStatusManager == [commentId |-> 0, issueNumber |-> 0, comments |-> <<>>, status |-> "",
                    prev |-> 0, calls |-> <<>>]

\* neither main nor enhancedMain is running.  github says whether main got
\* github and context, manager whether statusManager is set; runs are the
\* outcomes of the test command, cycles the re-analysis cycles begun; error
\* is the message of the caught error, thrown the message main rejected with
NoMain == [entry |-> "", github |-> FALSE, manager |-> FALSE, pc |-> "off", testAttempt |-> 0,
           runs |-> <<>>, cycles |-> 0, testPassed |-> None, error |-> "", thrown |-> "",
           exitCode |-> None]

\* the working trees a transaction starts from
InitialTrees ==
  { EmptyMap,
    [q \in {"/r/a.md"} |-> "A"],
    [q \in {"/r/a.md", "/r/b.md"} |-> IF q = "/r/a.md" THEN "A" ELSE "B"] }

BatchesOf(S, n) == UNION { [1..k -> S] : k \in 0..n }

\* the operations of the batches: every declared action on an existing and
\* on a missing path, with string, directive and malformed-directive
\* payloads, and one operation that validation rejects
TxBatches ==
  BatchesOf({ FileAction("a.md", "create", StrC("X"), Some("note")),
    FileAction("a.md", "modify", AppendD("X"), Some("note")),
    FileAction("a.md", "modify", ObjC(Some("bogus"), None, None, None), None),
    FileAction("a.md", "modify", StrC("X"), None),
    FileAction("a.md", "modify", StrC("console.log(1)"), None),
    FileAction("a.md", "delete", Absent, None),
    FileAction("b.md", "create", StrC("X"), Some("note")),
    FileAction("../x.md", "create", StrC("X"), None) }, MaxOps)

\* the variables of process.env the workflow reads, unset
WorkflowEnvOff ==
  [ENABLE_REVIEW |-> "", STRICT_MODE |-> "", STRICT_VERIFICATION |-> "", RUN_LINTER |-> ""]

ManagerEnvironments ==
  [SAFETY_MODE : {"safe", "normal", "fast"}, KEEP_BACKUPS : {"", "true"},
   FORCE_OVERWRITE : {"false"}, DRY_RUN : {"", "true"}]

\* e with the variables of w added
WithEnv(e, w) ==
  [k \in DOMAIN e \cup DOMAIN w |-> IF k \in DOMAIN w THEN w[k] ELSE e[k]]

(***************************************************************************)
(* simulateOperations, lines 334-353: the lines it logs, one per           *)
(* operation, with the mark of validator.validateFileOperation             *)
(***************************************************************************)
SimulateOperations(operations) ==
  [i \in 1..Len(operations) |->
     [action |-> operations[i].action, path |-> operations[i].path,
      validation |-> ValidateFileOperation(operations[i])]]

(***************************************************************************)
(* new SafeFileManager()                                                   *)
(***************************************************************************)
\* a constructor that compares DRY_RUN with the boolean true: never a dry run
DryRunComparedToBoolean(e) == FALSE

\* this.dryRun = process.env.DRY_RUN === 'true'
DryRunOf(e) == e.DRY_RUN = "true"

\* the directories of the tree f: the working directory and every ancestor
\* of a file
DirsOf(f) ==
  {"/", ProjectRoot} \cup
  UNION { { IF i = 1 THEN "/" ELSE SubSeq(q, 1, i - 1) :
              i \in {k \in 1..Len(q) : CharAt(q, k) = "/"} } : q \in DOMAIN f }

\* the constructor, on the tree f under the environment e
NewManager(f, e) ==
  /\ fs = f
  /\ dirs = DirsOf(f)
  /\ now = 0
  /\ env = e
  /\ dryRun = DryRunOf(e)
  /\ pendingOperations = <<>>
  /\ backups = EmptyMap
  /\ tx = [t \in Tasks |-> IdleTx]
  /\ last = [fn |-> "none", path |-> "", payload |-> Absent, before |-> None,
              after |-> None, threw |-> FALSE, mode |-> ""]

Init ==
  /\ \E f \in InitialTrees, e \in ManagerEnvironments : NewManager(f, WithEnv(e, WorkflowEnvOff))
  /\ solver = NoSolver
  /\ wf = NoWorkflow
  /\ twin = NoTwin
  /\ gen = NoGen
  /\ statusManager = NoStatusManager
  /\ main = NoMain

(***************************************************************************)
(* safeExecute(fileOperations), lines 16-30, called by the task: dry run,  *)
(* validation                                                              *)
(***************************************************************************)
\* the call frame of safeExecute(fileOperations) after lines 16-30,
\* validationResults being what validateAllOperations returned
Entered(fileOperations, validationResults) ==
  IF dryRun
    \* simulateOperations only reads
    THEN [IdleTx EXCEPT !.ops = fileOperations, !.pre = fs, !.preDirs = dirs, !.pc = "returned",
            !.simulated = SimulateOperations(fileOperations)]
  ELSE IF ~validationResults.valid
    THEN [IdleTx EXCEPT !.ops = fileOperations, !.pre = fs, !.preDirs = dirs, !.pc = "threw",
            !.error = "validation failed: " \o JoinWith(validationResults.errors, ", ")]
  ELSE [IdleTx EXCEPT !.ops = fileOperations, !.pre = fs, !.preDirs = dirs,
          !.pc = "backup", !.i = 1]

SafeExecute(task, fileOperations) ==
  /\ tx[task].pc = "idle"
  /\ tx' = [tx EXCEPT ![task] = Entered(fileOperations, ValidateAllOperations(fileOperations))]
  /\ UNCHANGED <<fs, dirs, now, env, dryRun, pendingOperations, backups, last>>

(***************************************************************************)
(* createBackups, lines 87-101: one iteration of the loop.  The clock may  *)
(* advance between two backups.                                            *)
(***************************************************************************)
\* the iteration for the operation, r being what createBackup did at time t
CreateBackupWith(operation, t, r) ==
  /\ fs' = r.fs
  /\ dirs' = r.dirs
  /\ now' = (IF r.backupPath = None THEN now ELSE t)
  /\ backups' = IF r.backupPath = None THEN backups
                ELSE [q \in DOMAIN backups \cup {operation.path} |->
                        IF q = operation.path THEN r.backupPath[1] ELSE backups[q]]

CreateBackupsStep(task) ==
  /\ tx[task].pc = "backup"
  /\ LET call == tx[task] IN
     IF call.i > Len(call.ops)
       THEN /\ tx' = [tx EXCEPT ![task] = [call EXCEPT !.pc = "exec", !.i = 1]]
            /\ UNCHANGED <<fs, dirs, now, backups>>
     ELSE IF call.ops[call.i].action \in {"modify", "delete"}
       THEN /\ \E t \in {now, now + 1} :
                 /\ t <= MaxClock
                 /\ CreateBackupWith(call.ops[call.i], t,
                                     CreateBackup(fs, dirs, t, call.ops[call.i].path))
            /\ tx' = [tx EXCEPT ![task] = [call EXCEPT !.i = call.i + 1]]
     ELSE /\ tx' = [tx EXCEPT ![task] = [call EXCEPT !.i = call.i + 1]]
          /\ UNCHANGED <<fs, dirs, now, backups>>
  /\ UNCHANGED <<env, dryRun, pendingOperations, last, solver, wf, twin, gen, statusManager, main>>

(***************************************************************************)
(* executeOperations, lines 106-120: one iteration of the loop             *)
(***************************************************************************)
\* the step of the loop for the operation, r being what
\* executeSingleOperation did and action the action it dispatched on
ExecuteOperationWith(task, operation, action, r) ==
  /\ fs' = r.fs
  /\ dirs' = r.dirs
  /\ last' = [fn |-> IF action = "create" THEN "createFile"
                     ELSE IF action = "modify" THEN "modifyFile"
                     ELSE IF action = "delete" THEN "deleteFile" ELSE "none",
              path |-> operation.path,
              payload |-> IF action = "modify" THEN ModifyPayload(operation)
                          ELSE operation.content,
              before |-> FileState(fs, operation.path),
              after |-> FileState(r.fs, operation.path),
              threw |-> r.threw,
              mode |-> env.SAFETY_MODE]
  /\ IF r.threw
       THEN /\ tx' = [tx EXCEPT ![task].pc = "rollback", ![task].failedAt = tx[task].i,
                        ![task].error = "operation failed (" \o operation.path \o "): " \o r.error]
            /\ UNCHANGED pendingOperations
     ELSE /\ tx' = [tx EXCEPT ![task].i = tx[task].i + 1,
                               ![task].results = Append(tx[task].results, r.rec)]
          /\ pendingOperations' = Append(pendingOperations, operation)

ExecuteOperationStep(task) ==
  /\ tx[task].pc = "exec"
  /\ tx[task].i <= Len(tx[task].ops)
  /\ ExecuteOperationWith(task, tx[task].ops[tx[task].i],
                          AdjustedAction(fs, dirs, tx[task].ops[tx[task].i]),
                          ExecuteSingleOperation(fs, dirs, env, now, tx[task].ops[tx[task].i]))
  /\ UNCHANGED <<now, env, dryRun, backups, solver, wf, twin, gen, statusManager, main>>

(***************************************************************************)
(* safeExecute, lines 36-41: every operation succeeded                     *)
(***************************************************************************)
FinishExecute(task) ==
  /\ tx[task].pc = "exec"
  /\ tx[task].i > Len(tx[task].ops)
  /\ IF env.KEEP_BACKUPS # "true"
       THEN /\ fs' = CleanupBackups(fs, backups)
            /\ backups' = EmptyMap
     ELSE UNCHANGED <<fs, backups>>
  /\ tx' = [tx EXCEPT ![task].pc = "returned"]
  /\ UNCHANGED <<dirs, now, env, dryRun, pendingOperations, last, solver, wf, twin, gen, statusManager, main>>

(***************************************************************************)
(* safeExecute, lines 42-48: rollback() and re-throw                       *)
(***************************************************************************)
RollbackStep(task) ==
  /\ tx[task].pc = "rollback"
  /\ fs' = Rollback(fs, pendingOperations, backups)
  /\ pendingOperations' = <<>>
  /\ tx' = [tx EXCEPT ![task].pc = "threw",
                      ![task].restored = { i \in 1..Len(pendingOperations) :
                                            /\ pendingOperations[i].action \in {"modify", "delete"}
                                            /\ pendingOperations[i].path \in DOMAIN backups }]
  /\ UNCHANGED <<dirs, now, env, dryRun, backups, last, solver, wf, twin, gen, statusManager, main>>

\* a rollback that gives up at a failing undo and throws its error
RollbackThrowingOnFailure(task) ==
  /\ tx[task].pc = "rollback"
  /\ \E failing \in SUBSET (1..Len(pendingOperations)) \ {{}} :
       tx' = [tx EXCEPT ![task].pc = "threw", ![task].undoFailed = failing,
                        ![task].error = "rollback failed"]
  /\ UNCHANGED <<fs, dirs, now, env, dryRun, pendingOperations, backups, last, solver, wf, twin, gen, statusManager, main>>

\* rollback() while the file system refuses the undo of some ledger entries
\* (a file that cannot be unlinked, a backup that is gone or cannot be
\* copied): undoFailed is the set of the entries whose failure was logged, by
\* the catch of line 323 or by restoreFromBackup, and restored the set of the
\* entries logged as restored at line 318, which follows the call of
\* restoreFromBackup whatever it returned
RollbackStepWithFailures(task) ==
  /\ tx[task].pc = "rollback"
  /\ \E failing \in SUBSET (1..Len(pendingOperations)) \ {{}} :
       /\ fs' = RollbackFrom(fs, pendingOperations, backups, failing, Len(pendingOperations))
       /\ tx' = [tx EXCEPT ![task].pc = "threw", ![task].undoFailed = failing,
                           ![task].restored = { i \in 1..Len(pendingOperations) :
                                                 /\ pendingOperations[i].action \in {"modify", "delete"}
                                                 /\ pendingOperations[i].path \in DOMAIN backups }]
  /\ pendingOperations' = <<>>
  /\ UNCHANGED <<dirs, now, env, dryRun, backups, last, solver, wf, twin, gen, statusManager, main>>

\* a direct call of safeExecute on a batch
Execute(fileOperations) ==
  /\ SafeExecute("main", fileOperations)
  /\ UNCHANGED <<solver, wf, twin, gen, statusManager, main>>

Next ==
  \/ \E ops \in TxBatches : Execute(ops)
  \/ CreateBackupsStep("main")
  \/ ExecuteOperationStep("main")
  \/ FinishExecute("main")
  \/ RollbackStep("main")

Spec == Init /\ [][Next]_vars

(***************************************************************************)
(* EnhancedWorkflow.execute().  The main task runs the phases; the steps   *)
(* of verifySolution run as tasks of their own until Promise.allSettled.   *)
(***************************************************************************)
\* an executePhase that pushes no checkpoint for a phase that failed
CheckpointOnlyWhenCompleted(w, phase, status) ==
  IF status = "failed" THEN w
  ELSE [w EXCEPT !.checkpoints = Append(w.checkpoints, [phase |-> phase, status |-> status])]

\* executePhase pushes one checkpoint
Checkpoint(w, phase, status) ==
  [w EXCEPT !.checkpoints = Append(w.checkpoints, [phase |-> phase, status |-> status])]

\* the workflow after the safeExecute call of the task returned
Committed(w, task) ==
  [w EXCEPT !.touched = IF dryRun THEN w.touched
                        ELSE w.touched \cup {tx[task].ops[j].path : j \in 1..Len(tx[task].ops)},
            !.committed = IF dryRun THEN w.committed ELSE w.committed + 1]

\* the issues of the runs
Issues ==
  { [title |-> "create readme", body |-> "please", hasSourceDir |-> FALSE] }

\* the answers of the LLM: a failing call, a schema-valid solution, a
\* schema-valid solution whose second operation fails (c.md is missing), a
\* solution with a plain-string modify, a text with an empty code block, a
\* text with a code block
Responses ==
  { \* an LLM call that fails: it rejects, times out or carries no text
    [kind |-> "error", text |-> "", json |-> None, block |-> None],
    TextResponse("{\"files\":[{\"path\":\"a.md\",\"action\":\"modify\",\"content\":{\"type\":\"append\",\"content\":\"X\"}}]}",
                 Some(Solution(Some(<<FileAction("a.md", "modify", AppendD("X"), None)>>),
                               "high", None))),
    TextResponse("{\"files\":[{\"path\":\"a.md\",\"action\":\"modify\",\"content\":\"X\"}]}",
                 Some(Solution(Some(<<FileAction("a.md", "modify", StrC("X"), None)>>),
                               "high", None))),
    TextResponse(Fence \o "\n" \o Fence, None),
    TextResponse("see " \o Fence \o "python\nX\n" \o Fence, None),
    TextResponse("{\"files\":[{\"path\":\"a.md\",\"action\":\"delete\"},{\"path\":\"c.md\",\"action\":\"modify\",\"content\":{\"type\":\"append\",\"content\":\"X\"}}]}",
                 Some(Solution(Some(<<FileAction("a.md", "delete", Absent, None),
                                      FileAction("c.md", "modify", AppendD("X"), None)>>),
                               "high", None))) }

\* new EnhancedWorkflow(config, solver) and the call of execute()
InitWorkflow ==
  /\ \E code \in {"/r/app.js", "/r/m.py"},
        e \in [SAFETY_MODE : {"normal"}, KEEP_BACKUPS : {"", "true"}, FORCE_OVERWRITE : {"false"},
               DRY_RUN : {""}, ENABLE_REVIEW : {"", "true"}, STRICT_MODE : {""},
               STRICT_VERIFICATION : {"", "true"}, RUN_LINTER : {"true"}] :
        NewManager([q \in {"/r/a.md", code} |-> IF q = "/r/a.md" THEN "A" ELSE "x"], e)
  /\ \E issue \in Issues : solver = [NoSolver EXCEPT !.issue = issue]
  /\ wf = [NoWorkflow EXCEPT !.pc = "analysis", !.pre = fs]
  /\ twin = NoTwin
  /\ gen = NoGen
  /\ statusManager = NoStatusManager
  /\ main = NoMain

Manager == <<fs, dirs, now, env, dryRun, pendingOperations, backups, tx, last>>

\* the analysis phase: solver.analyzeIssue() reads the repository
AnalysisPhase ==
  /\ wf.pc = "analysis"
  /\ wf' = [Checkpoint(wf, "analysis", "completed") EXCEPT !.pc = "planning"]
  /\ UNCHANGED <<Manager, solver, twin, gen, statusManager, main>>

\* what generateSolution() can do on the issue, over the answers of the LLM
GenerateSolutionResults ==
  [issue \in Issues |->
     { GenerateSolution(issue, WorkflowConfig.geminiMaxRetries, responses) :
         responses \in [1..MaxRetriesOf(MaxRetries) -> Responses] }]

\* the solver after generateSolution gave the result r
Planned(sv, r) ==
  [sv EXCEPT !.solution = IF r.assigned = None THEN @ ELSE Some(r.assigned[1].solution),
             !.validation = IF r.assigned = None THEN @ ELSE Some(r.assigned[1].validation),
             !.calls = r.calls]

\* generateSolution() gave r and the workflow's validateSolution follows: TRUE
\* when the phase fails
PlanningFails(sv, r) ==
  r.threw \/ WorkflowValidationThrows(Planned(sv, r).solution[1], env, WorkflowConfig)

\* the planning phase: generateSolution and the workflow's validateSolution
PlanningPhase ==
  /\ wf.pc = "planning"
  /\ \E r \in GenerateSolutionResults[solver.issue] :
       /\ solver' = Planned(solver, r)
       /\ IF PlanningFails(solver, r)
            THEN wf' = [Checkpoint(wf, "planning", "failed") EXCEPT !.pc = "handleError"]
          ELSE wf' = [Checkpoint(wf, "planning", "completed") EXCEPT
                        !.pc = IF env.ENABLE_REVIEW = "true" THEN "review"
                               ELSE "implementation"]
  /\ UNCHANGED <<Manager, twin, gen, statusManager, main>>

\* the safeExecute call the task awaited has settled: the call frame is dropped
Settled(task) == tx[task].pc \in {"returned", "threw"}

\* the review phase, reviewSolution: safeExecute(solution.files) when the
\* solution has files (INTERACTIVE is not set)
ReviewPhase ==
  /\ wf.pc = "review"
  /\ IF solver.solution[1].files # None
       THEN /\ SafeExecute("main", FilesOf(solver.solution[1]))
            /\ wf' = [wf EXCEPT !.pc = "review.await"]
     ELSE /\ wf' = [Checkpoint(wf, "review", "completed") EXCEPT !.pc = "implementation"]
          /\ UNCHANGED Manager
  /\ UNCHANGED <<solver, twin, gen, statusManager, main>>

\* the review phase after its safeExecute settled
ReviewResume ==
  /\ wf.pc = "review.await"
  /\ Settled("main")
  /\ tx' = [tx EXCEPT !["main"] = IdleTx]
  /\ IF tx["main"].pc = "returned"
       THEN wf' = [Checkpoint(Committed(wf, "main"), "review", "completed") EXCEPT
                     !.pc = "implementation"]
     ELSE wf' = [Checkpoint(wf, "review", "failed") EXCEPT !.pc = "handleError"]
  /\ UNCHANGED <<fs, dirs, now, env, dryRun, pendingOperations, backups, last, solver, twin, gen, statusManager, main>>

\* the implementation phase, implementSolution
ImplementationPhase ==
  /\ wf.pc = "implementation"
  /\ IF Len(FilesOf(solver.solution[1])) = 0
       THEN /\ wf' = [Checkpoint(wf, "implementation", "completed") EXCEPT !.pc = "verification"]
            /\ UNCHANGED Manager
     ELSE /\ SafeExecute("main", FilesOf(solver.solution[1]))
          /\ wf' = [wf EXCEPT !.pc = "implementation.await"]
  /\ UNCHANGED <<solver, twin, gen, statusManager, main>>

\* the implementation phase after its safeExecute settled
ImplementationResume ==
  /\ wf.pc = "implementation.await"
  /\ Settled("main")
  /\ tx' = [tx EXCEPT !["main"] = IdleTx]
  /\ IF tx["main"].pc = "returned"
       THEN wf' = [Checkpoint(Committed(wf, "main"), "implementation", "completed") EXCEPT
                     !.pc = "verification"]
     ELSE wf' = [Checkpoint(wf, "implementation", "failed") EXCEPT !.pc = "handleError"]
  /\ UNCHANGED <<fs, dirs, now, env, dryRun, pendingOperations, backups, last, solver, twin, gen, statusManager, main>>

\* verifySolution up to Promise.allSettled: the steps are started
VerificationPhase ==
  /\ wf.pc = "verification"
  /\ wf' = [wf EXCEPT
       !.pc = "verification.await",
       !.attempt = 1,
       !.testPc = "exec",
       !.steps = [t \in (Tasks \ {"main"}) |->
                    IF \/ t = "runJavaScriptChecks" /\ HasJavaScriptFiles(fs)
                       \/ t = "runPythonChecks" /\ HasPythonFiles(fs)
                       \/ t = "runTests" /\ WorkflowConfig.runTests
                       \/ t = "runLinter" /\ env.RUN_LINTER = "true"
                      THEN "running" ELSE "none"]]
  /\ UNCHANGED <<Manager, solver, twin, gen, statusManager, main>>

\* runJavaScriptChecks: eslint, every failure is caught
RunJavaScriptChecks ==
  /\ wf.steps["runJavaScriptChecks"] = "running"
  /\ wf' = [wf EXCEPT !.steps["runJavaScriptChecks"] = "fulfilled"]
  /\ UNCHANGED <<Manager, solver, twin, gen, statusManager, main>>

\* runPythonChecks: flake8, every failure is caught
RunPythonChecks ==
  /\ wf.steps["runPythonChecks"] = "running"
  /\ wf' = [wf EXCEPT !.steps["runPythonChecks"] = "fulfilled"]
  /\ UNCHANGED <<Manager, solver, twin, gen, statusManager, main>>

\* a runLinter that applies the solution's files again before it lints
RunLinterReimplementing ==
  /\ wf.steps["runLinter"] = "running"
  /\ SafeExecute("runLinter", FilesOf(solver.solution[1]))
  /\ wf' = [wf EXCEPT !.steps["runLinter"] = "fulfilled"]
  /\ UNCHANGED <<solver, twin, gen, statusManager, main>>

\* runLinter: the lint command passes or fails
RunLinter ==
  /\ wf.steps["runLinter"] = "running"
  /\ \E passed \in BOOLEAN :
       wf' = [wf EXCEPT !.steps["runLinter"] = IF passed THEN "fulfilled" ELSE "rejected"]
  /\ UNCHANGED <<Manager, solver, twin, gen, statusManager, main>>

AttemptsLeftAlways(attempt, max) == TRUE

\* if (attempt < this.config.testMaxRetries), the test of both test loops
\* before the cycle
AttemptsLeft(attempt, max) == attempt < max

\* runTests, one pass of the loop up to the re-implementation: the test
\* command passes or fails; a failure before the last attempt runs the
\* re-analysis and the re-planning
RunTests ==
  /\ wf.steps["runTests"] = "running"
  /\ wf.testPc = "exec"
  /\ IF wf.attempt > WorkflowConfig.testMaxRetries
       THEN /\ wf' = [wf EXCEPT !.steps["runTests"] = "rejected", !.testPc = "done"]
            /\ UNCHANGED solver
     ELSE \E passed \in BOOLEAN :
       IF passed
         THEN /\ wf' = [wf EXCEPT !.steps["runTests"] = "fulfilled", !.testPc = "done",
                                  !.runs = Append(@, "passed")]
              /\ UNCHANGED solver
       ELSE IF AttemptsLeft(wf.attempt, WorkflowConfig.testMaxRetries)
         THEN \E r \in GenerateSolutionResults[solver.issue] :
                LET w == Checkpoint([wf EXCEPT !.runs = Append(@, "failed"), !.cycles = @ + 1],
                                    "re-analysis", "completed")
                IN /\ solver' = Planned(solver, r)
                   /\ IF PlanningFails(solver, r)
                        THEN wf' = [Checkpoint(w, "re-planning", "failed") EXCEPT
                                      !.steps["runTests"] = "rejected", !.testPc = "done"]
                      ELSE wf' = [Checkpoint(w, "re-planning", "completed") EXCEPT
                                    !.testPc = "re-implementation"]
       ELSE /\ wf' = [wf EXCEPT !.attempt = wf.attempt + 1, !.runs = Append(@, "failed")]
            /\ UNCHANGED solver
  /\ UNCHANGED <<Manager, twin, gen, statusManager, main>>

\* runTests, the re-implementation phase: implementSolution
RunTestsReimplementation ==
  /\ wf.steps["runTests"] = "running"
  /\ wf.testPc = "re-implementation"
  /\ IF Len(FilesOf(solver.solution[1])) = 0
       THEN /\ wf' = [Checkpoint(wf, "re-implementation", "completed") EXCEPT
                        !.attempt = wf.attempt + 1, !.testPc = "exec"]
            /\ UNCHANGED Manager
     ELSE /\ SafeExecute("runTests", FilesOf(solver.solution[1]))
          /\ wf' = [wf EXCEPT !.testPc = "re-implementation.await"]
  /\ UNCHANGED <<solver, twin, gen, statusManager, main>>

\* runTests after the safeExecute of the re-implementation settled
RunTestsResume ==
  /\ wf.steps["runTests"] = "running"
  /\ wf.testPc = "re-implementation.await"
  /\ Settled("runTests")
  /\ tx' = [tx EXCEPT !["runTests"] = IdleTx]
  /\ IF tx["runTests"].pc = "returned"
       THEN wf' = [Checkpoint(Committed(wf, "runTests"), "re-implementation", "completed")
                     EXCEPT !.attempt = wf.attempt + 1, !.testPc = "exec"]
     ELSE wf' = [Checkpoint(wf, "re-implementation", "failed") EXCEPT
                   !.steps["runTests"] = "rejected", !.testPc = "done"]
  /\ UNCHANGED <<fs, dirs, now, env, dryRun, pendingOperations, backups, last, solver, twin, gen, statusManager, main>>

\* verifySolution after Promise.allSettled
VerificationJoin ==
  /\ wf.pc = "verification.await"
  /\ \A t \in (Tasks \ {"main"}) : wf.steps[t] # "running"
  /\ IF (\E t \in (Tasks \ {"main"}) : wf.steps[t] = "rejected") /\ env.STRICT_VERIFICATION = "true"
       THEN wf' = [Checkpoint(wf, "verification", "failed") EXCEPT !.pc = "handleError"]
     ELSE wf' = [Checkpoint(wf, "verification", "completed") EXCEPT !.pc = "reporting"]
  /\ UNCHANGED <<Manager, solver, twin, gen, statusManager, main>>

\* the reporting phase, generateReport
ReportingPhase ==
  /\ wf.pc = "reporting"
  /\ fs' = IF WorkflowConfig.generateReport
             THEN WriteFileSync(fs, "issue_" \o WorkflowConfig.issueNumber \o "_report.json",
                                "{report}")
           ELSE fs
  /\ wf' = [Checkpoint(wf, "reporting", "completed") EXCEPT !.pc = "done"]
  /\ UNCHANGED <<dirs, now, env, dryRun, pendingOperations, backups, tx, last, solver, twin, gen, statusManager, main>>

\* handleError: fileManager.rollback() and the error report
HandleError ==
  /\ wf.pc = "handleError"
  /\ fs' = WriteFileSync(Rollback(fs, pendingOperations, backups),
                         "error_" \o WorkflowConfig.issueNumber \o "_" \o NatToString(now) \o ".json",
                         "{error}")
  /\ pendingOperations' = <<>>
  /\ wf' = [wf EXCEPT !.pc = "failed"]
  /\ UNCHANGED <<dirs, now, env, dryRun, backups, tx, last, solver, twin, gen, statusManager, main>>

NextWorkflow ==
  \/ AnalysisPhase
  \/ PlanningPhase
  \/ ReviewPhase
  \/ ReviewResume
  \/ ImplementationPhase
  \/ ImplementationResume
  \/ VerificationPhase
  \/ RunJavaScriptChecks
  \/ RunPythonChecks
  \/ RunTests
  \/ RunTestsReimplementation
  \/ RunTestsResume
  \/ RunLinter
  \/ VerificationJoin
  \/ ReportingPhase
  \/ HandleError
  \/ \E task \in Tasks : CreateBackupsStep(task)
  \/ \E task \in Tasks : ExecuteOperationStep(task)
  \/ \E task \in Tasks : FinishExecute(task)
  \/ \E task \in Tasks : RollbackStep(task)

SpecWF == InitWorkflow /\ [][NextWorkflow]_vars

(***************************************************************************)
(* safeExecute on single operations over contained and escaping paths      *)
(***************************************************************************)
\* a manager on a tree with or without a file in the sibling directory /rx
\* of the working directory /r
InitPath ==
  /\ \E f \in { [q \in {"/r/a.md"} |-> "A"],
                [q \in {"/r/a.md", "/rx/x.md"} |-> IF q = "/r/a.md" THEN "A" ELSE "S"] },
        e \in [SAFETY_MODE : {"normal"}, KEEP_BACKUPS : {"", "true"},
               FORCE_OVERWRITE : {"false"}, DRY_RUN : {""}] :
        NewManager(f, WithEnv(e, WorkflowEnvOff))
  /\ solver = NoSolver
  /\ wf = NoWorkflow
  /\ twin = NoTwin
  /\ gen = NoGen
  /\ statusManager = NoStatusManager
  /\ main = NoMain

\* the operations: every action on contained paths, paths with a '..'
\* segment and paths that resolve outside the working directory
NextPath ==
  \/ \E ops \in BatchesOf(
          { FileAction(q, a.action, a.content, None) :
              q \in {"a.md", "s/a.md", "s/../a.md", "../x.md", "../rx/x.md", "/rx/x.md", "/etc/x.md"},
              a \in { [action |-> "create", content |-> StrC("X")],
                      [action |-> "modify", content |-> AppendD("X")],
                      [action |-> "delete", content |-> Absent] } } \cup
          { FileAction("a.md", "modify", ObjC(Some("bogus"), None, None, None), None) },
          1) : Execute(ops)
  \/ CreateBackupsStep("main")
  \/ ExecuteOperationStep("main")
  \/ FinishExecute("main")
  \/ RollbackStep("main")

SpecPath == InitPath /\ [][NextPath]_vars

(***************************************************************************)
(* SolutionValidator.validateSolution on solutions of every shape          *)
(***************************************************************************)
\* the solutions: no object, no files, and files[] whose entries have every
\* action with no content, an empty string, a string and a directive, with
\* and without the changes text, an empty path, a missing and an unknown
\* action, and modify with directives of every tag, well-formed and not
ValidatorSolutions ==
  \* what JSON.parse returns for a text that is no JSON object (a number, null)
  {[k |-> "other", files |-> None, confidence |-> "", implementation |-> None],
   Solution(None, "high", None)} \cup
  { Solution(Some(files), "high", None) :
      files \in BatchesOf({ FileAction("a.md", a, c, ch) :
                              a \in {"create", "modify", "delete"},
                              c \in {Absent, StrC(""), StrC("X"), AppendD("X")},
                              ch \in {None, Some("desc")} } \cup
                          { FileAction("", "delete", Absent, None),
                            FileAction("a.md", "", StrC("X"), None),
                            FileAction("a.md", "rename", StrC("X"), None) } \cup
                          { FileAction("a.md", "modify", c, None) :
                              c \in { ObjC(None, Some("X"), None, None),
                                      ObjC(Some("bogus"), Some("X"), None, None),
                                      ObjC(Some("append"), None, None, None),
                                      ObjC(Some("prepend"), Some("X"), None, None),
                                      ObjC(Some("replace"), None, Some("o"), None),
                                      ObjC(Some("replace"), None, Some("o"), Some("0")),
                                      ObjC(Some("full-replace"), Some("X"), None, None),
                                      ObjC(Some("full-replace"), None, None, None) } },
                          MaxFiles) }

\* a solver holding a solution the validator has not seen
InitValidator ==
  /\ NewManager(EmptyMap, WithEnv(CHOOSE e \in ManagerEnvironments :
                                    e.SAFETY_MODE = "normal" /\ e.KEEP_BACKUPS = "" /\ e.DRY_RUN = "",
                                  WorkflowEnvOff))
  /\ \E solution \in ValidatorSolutions : solver = [NoSolver EXCEPT !.solution = Some(solution)]
  /\ wf = NoWorkflow
  /\ twin = NoTwin
  /\ gen = NoGen
  /\ statusManager = NoStatusManager
  /\ main = NoMain

\* this.validator.validateSolution(this.solution)
Validate ==
  /\ solver.solution # None
  /\ solver.validation = None
  /\ solver' = [solver EXCEPT !.validation = Some(ValidateSolution(solver.solution[1]))]
  /\ UNCHANGED <<Manager, wf, twin, gen, statusManager, main>>

SpecValidator == InitValidator /\ [][Validate]_vars

(***************************************************************************)
(* One batch executed twice on the same tree, the second time with other   *)
(* changes texts                                                           *)
(***************************************************************************)
InitTwin ==
  /\ \E f \in InitialTrees,
        e \in [SAFETY_MODE : {"safe", "normal"}, KEEP_BACKUPS : {""},
               FORCE_OVERWRITE : {"false"}, DRY_RUN : {""}] :
        NewManager(f, WithEnv(e, WorkflowEnvOff))
  /\ solver = NoSolver
  /\ wf = NoWorkflow
  /\ twin = NoTwin
  /\ gen = NoGen
  /\ statusManager = NoStatusManager
  /\ main = NoMain

\* the first call has settled: its outcome is kept, and a new manager
\* executes a batch that differs in the changes only on the tree the first
\* call started on
ExecuteTwin(fileOperations) ==
  /\ twin.stage = "first"
  /\ Settled("main")
  /\ Len(fileOperations) = Len(tx["main"].ops)
  /\ \A j \in 1..Len(fileOperations) :
        [fileOperations[j] EXCEPT !.changes = None] = [tx["main"].ops[j] EXCEPT !.changes = None]
  /\ twin' = [stage |-> "second", ops |-> tx["main"].ops, fs |-> fs]
  /\ fs' = tx["main"].pre
  /\ dirs' = tx["main"].preDirs
  /\ now' = 0
  /\ pendingOperations' = <<>>
  /\ backups' = EmptyMap
  /\ last' = [fn |-> "none", path |-> "", payload |-> Absent, before |-> None,
              after |-> None, threw |-> FALSE, mode |-> ""]
  /\ tx' = [tx EXCEPT !["main"] = Entered(fileOperations, ValidateAllOperations(fileOperations))]
  /\ UNCHANGED <<env, dryRun, solver, wf, gen, statusManager, main>>

\* the operations: create and modify of a.md with every kind of content and
\* with different changes texts
NextTwin ==
  \/ \E ops \in BatchesOf({ FileAction("a.md", a, c, ch) :
                              a \in {"create", "modify"}, c \in {Absent, StrC("X"), AppendD("X")},
                              ch \in {None, Some("P"), Some("Q")} },
                          1) :
        \/ Execute(ops)
        \/ ExecuteTwin(ops)
  \/ CreateBackupsStep("main")
  \/ ExecuteOperationStep("main")
  \/ FinishExecute("main")
  \/ RollbackStep("main")

SpecTwin == InitTwin /\ [][NextTwin]_vars

(***************************************************************************)
(* Batches that fail after one or more operations were applied, and the    *)
(* rollback that follows, with and without failing undo steps              *)
(***************************************************************************)
InitRollback ==
  /\ \E f \in {EmptyMap, [q \in {"/r/a.md"} |-> "A"]},
        e \in [SAFETY_MODE : {"normal"}, KEEP_BACKUPS : {"", "true"},
               FORCE_OVERWRITE : {"false"}, DRY_RUN : {""}] :
        NewManager(f, WithEnv(e, WorkflowEnvOff))
  /\ solver = NoSolver
  /\ wf = NoWorkflow
  /\ twin = NoTwin
  /\ gen = NoGen
  /\ statusManager = NoStatusManager
  /\ main = NoMain

\* the batches: up to MaxOps applied operations and a failing one
NextRollback ==
  \/ \E ops \in BatchesOf({ FileAction("a.md", "delete", Absent, None),
                            FileAction("a.md", "create", StrC("X"), None),
                            FileAction("a.md", "modify", AppendD("X"), None),
                            FileAction("b.md", "create", StrC("X"), None),
                            FileAction("a.md", "modify", ObjC(Some("bogus"), None, None, None), None) },
                          MaxOps + 1) : Execute(ops)
  \/ CreateBackupsStep("main")
  \/ ExecuteOperationStep("main")
  \/ FinishExecute("main")
  \/ RollbackStep("main")
  \/ RollbackStepWithFailures("main")

SpecRollback == InitRollback /\ [][NextRollback]_vars

(***************************************************************************)
(* safeExecute on single operations: create on existing and missing files, *)
(* modify with directives on files of every allowed type, replace          *)
(* directives, modify with the changes text only, under every safety mode  *)
(***************************************************************************)
InitOps ==
  /\ \E body \in {"A", "", "console.log(1)"},
        f \in {EmptyMap, [q \in {"/r/b.md"} |-> "B"]},
        e \in [SAFETY_MODE : {"", "safe", "normal", "fast"}, KEEP_BACKUPS : {""},
               FORCE_OVERWRITE : {"false"}, DRY_RUN : {""}] :
        \E g \in {f, WriteFileSync(f, "a.md", body)} : NewManager(g, WithEnv(e, WorkflowEnvOff))
  /\ solver = NoSolver
  /\ wf = NoWorkflow
  /\ twin = NoTwin
  /\ gen = NoGen
  /\ statusManager = NoStatusManager
  /\ main = NoMain

NextOps ==
  \/ \E ops \in BatchesOf(
          { FileAction("a.md", "create", StrC(c), None) : c \in {"A", "X", "", "console.log(1)"} } \cup
          { FileAction("a" \o ext, "modify", AppendD("X"), None) : ext \in ALLOWED_EXTENSIONS } \cup
          { FileAction("a.md", "modify", ObjC(Some(t), Some(c), None, None), None) :
              t \in {"append", "prepend"}, c \in {"X", ""} } \cup
          { FileAction("a.md", "modify", ObjC(Some("replace"), None, Some(from), Some(to)), None) :
              from \in {"o", "Z"}, to \in {"0", "$&", "$$"} } \cup
          { FileAction("a.md", "modify", Absent, Some("P")),
            FileAction("a.md", "delete", Absent, None) },
          1) : Execute(ops)
  \/ CreateBackupsStep("main")
  \/ ExecuteOperationStep("main")
  \/ FinishExecute("main")
  \/ RollbackStep("main")

SpecOps == InitOps /\ [][NextOps]_vars

(***************************************************************************)
(* safeExecute on batches over a tree with files of the same name in two   *)
(* directories: deletes of the guarded names, operations that each check   *)
(* of validation rejects, a workflow file, modify and delete of both       *)
(* a.md, a create over a guarded name, a directive that carries a          *)
(* dangerous text, live and as a dry run                                   *)
(***************************************************************************)
InitBatch ==
  /\ \E e \in [SAFETY_MODE : {""}, KEEP_BACKUPS : {"", "true"},
                FORCE_OVERWRITE : {"false"}, DRY_RUN : {"", "true"}] :
        NewManager([q \in {"/r/a.md", "/r/s/a.md", "/r/s/README.md", "/r/package.json"} |->
                      IF q = "/r/a.md" THEN "A"
                      ELSE IF q = "/r/s/a.md" THEN "B"
                      ELSE IF q = "/r/s/README.md" THEN "R" ELSE "{}"],
                   WithEnv(e, WorkflowEnvOff))
  /\ solver = NoSolver
  /\ wf = NoWorkflow
  /\ twin = NoTwin
  /\ gen = NoGen
  /\ statusManager = NoStatusManager
  /\ main = NoMain

NextBatch ==
  \/ \E ops \in BatchesOf(
          { FileAction(p, "delete", Absent, None) :
              p \in {"package.json", "s/README.md", "LICENSE", "a.md", "s/a.md"} } \cup
          { FileAction("a.md", "modify", AppendD("X"), None),
            FileAction("a.md", "modify", AppendD("eval(1)"), None),
            FileAction("s/README.md", "create", StrC("X"), None),
            FileAction("s/a.md", "modify", ObjC(Some("bogus"), None, None, None), None),
            FileAction("../x.md", "create", StrC("X"), None),
            FileAction("a.exe", "create", StrC("X"), None),
            FileAction("c.js", "create", StrC("eval(1)"), None),
            FileAction(".github/workflows/ci.yml", "create", StrC("X"), None) },
          MaxOps) : Execute(ops)
  \/ CreateBackupsStep("main")
  \/ ExecuteOperationStep("main")
  \/ FinishExecute("main")
  \/ RollbackStep("main")

SpecBatch == InitBatch /\ [][NextBatch]_vars

(***************************************************************************)
(* generateSolution step by step: every attempt calls the LLM through      *)
(* callGeminiWithTimeout, whose promise is settled by the call or by the   *)
(* timer, whichever comes first; calls that outlive their timer settle     *)
(* later                                                                   *)
(***************************************************************************)
\* the message of the timer's error, timeout being config.geminiTimeout || 3600000 (Japanese in the source)
TimeoutMessage == "Gemini API call timed out (" \o NatToString(3600000 \div 1000) \o "s)"

SettleAgain(promise, outcome) == outcome

\* resolve(value) / reject(error) of a promise: the first call settles it,
\* every later call is ignored
Settle(promise, outcome) ==
  IF promise.state = "pending" THEN outcome ELSE promise

\* new GeminiIssueSolver(apiKey, config) after analyzeIssue, and the call of
\* generateSolution() up to the head of its loop
InitSolver ==
  /\ NewManager(EmptyMap, WithEnv(CHOOSE e \in ManagerEnvironments :
                                    e.SAFETY_MODE = "normal" /\ e.KEEP_BACKUPS = "" /\ e.DRY_RUN = "",
                                  WorkflowEnvOff))
  /\ \E issue \in Issues : solver = [NoSolver EXCEPT !.issue = issue]
  /\ wf = NoWorkflow
  /\ twin = NoTwin
  /\ \E geminiMaxRetries \in 0..MaxRetries :
       gen = [NoGen EXCEPT !.pc = "loop", !.maxRetries = MaxRetriesOf(geminiMaxRetries),
                           !.attempt = 1]
  /\ statusManager = NoStatusManager
  /\ main = NoMain

\* the head of the loop with attempts left, and callGeminiWithTimeout up to
\* its await: the timer is armed and generateContent is called
CallGeminiWithTimeout ==
  /\ gen.pc = "loop"
  /\ gen.attempt <= gen.maxRetries
  /\ gen' = [gen EXCEPT !.pc = "await",
                        !.call = Append(@, [state |-> "pending", response |-> None,
                                            message |-> ""]),
                        !.timer = Append(@, "armed"),
                        !.promise = Append(@, [state |-> "pending", response |-> None,
                                               message |-> ""])]
  /\ solver' = [solver EXCEPT !.calls = @ + 1]
  /\ UNCHANGED <<Manager, wf, twin, statusManager, main>>

\* the timer of the call k expires: reject(timeout error)
TimerFires(k) ==
  /\ k \in 1..Len(gen.timer)
  /\ gen.timer[k] = "armed"
  /\ gen' = [gen EXCEPT !.timer[k] = "fired",
                        !.promise[k] = Settle(@, [state |-> "rejected", response |-> None,
                                                  message |-> TimeoutMessage])]
  /\ UNCHANGED <<Manager, solver, wf, twin, statusManager, main>>

\* the generateContent call k settles, with a result or with an error:
\* clearTimeout, then resolve(result) or reject(error)
GenerateContentSettles(k) ==
  /\ k \in 1..Len(gen.call)
  /\ gen.call[k].state = "pending"
  /\ \/ \E r \in Responses :
          gen' = [gen EXCEPT !.call[k] = [state |-> "fulfilled", response |-> Some(r),
                                           message |-> ""],
                             !.timer[k] = IF @ = "armed" THEN "cleared" ELSE @,
                             !.promise[k] = Settle(@, [state |-> "fulfilled", response |-> Some(r),
                                                       message |-> ""])]
     \/ \E m \in {"Network error", "Timeout"} :
          gen' = [gen EXCEPT !.call[k] = [state |-> "rejected", response |-> None,
                                           message |-> m],
                             !.timer[k] = IF @ = "armed" THEN "cleared" ELSE @,
                             !.promise[k] = Settle(@, [state |-> "rejected", response |-> None,
                                                       message |-> m])]
  /\ UNCHANGED <<Manager, solver, wf, twin, statusManager, main>>

ApiFailureKeepsFirstError(message) ==
  [gen EXCEPT !.lastError = IF @ = None THEN Some(message) ELSE @,
              !.pc = IF gen.attempt < gen.maxRetries THEN "sleep" ELSE "loop",
              !.attempt = IF gen.attempt < gen.maxRetries THEN @ ELSE @ + 1]

\* catch (apiError): lastError is kept; with attempts left the prompt is
\* adjusted and the retry delay starts, else the loop ends
ApiFailure(message) ==
  [gen EXCEPT !.lastError = Some(message),
              !.pc = IF gen.attempt < gen.maxRetries THEN "sleep" ELSE "loop",
              !.attempt = IF gen.attempt < gen.maxRetries THEN @ ELSE @ + 1]

\* lines 124-155 for the answer with each text: the parsed solution, the
\* validator's verdict on it and the solution the last attempt returns, the
\* parsed one when valid and the fallback solution when not
Parsed ==
  [issue \in Issues |->
     [text \in {a.text : a \in Responses} |->
        LET r == CHOOSE a \in Responses : a.text = text
            parsed == ParseGeminiResponse(r, AnalyzeIssueContent(issue.title, issue.body,
                                                                 issue.hasSourceDir),
                                          issue.hasSourceDir)
        IN [solution |-> parsed,
            validation |-> ValidateSolution(parsed),
            atLast |-> IF ValidateSolution(parsed).valid THEN parsed
                       ELSE CreateFallbackSolution(r.text, issue)]]]

\* generateSolution after the await of the attempt: a rejected promise and
\* a result without text go to catch (apiError); a text is parsed and
\* validated, returned when valid, followed by the next attempt when not,
\* and replaced by the fallback solution after the last attempt
AttemptSettled ==
  /\ gen.pc = "await"
  /\ gen.promise[gen.attempt].state # "pending"
  /\ LET p == gen.promise[gen.attempt]
         r == p.response[1]
         parsed == Parsed[solver.issue][r.text]
     IN IF p.state = "rejected"
          THEN gen' = ApiFailure(p.message) /\ UNCHANGED solver
        ELSE IF r.kind = "error"
          THEN gen' = ApiFailure("no candidates in the response") /\ UNCHANGED solver
        ELSE IF Trim(r.text) = ""
          THEN gen' = ApiFailure("empty response") /\ UNCHANGED solver
        ELSE IF parsed.validation.valid
          THEN /\ gen' = [gen EXCEPT !.pc = "returned"]
               /\ solver' = [solver EXCEPT !.solution = Some(parsed.solution),
                                           !.validation = Some(parsed.validation)]
        ELSE IF gen.attempt < gen.maxRetries
          THEN /\ gen' = [gen EXCEPT !.pc = "loop", !.attempt = @ + 1]
               /\ solver' = [solver EXCEPT !.solution = Some(parsed.solution),
                                           !.validation = Some(parsed.validation)]
        ELSE /\ gen' = [gen EXCEPT !.pc = "returned"]
             /\ solver' = [solver EXCEPT !.solution = Some(parsed.atLast),
                                         !.validation = Some(parsed.validation)]
  /\ UNCHANGED <<Manager, wf, twin, statusManager, main>>

\* the retry delay is over: the next attempt
RetryDelay ==
  /\ gen.pc = "sleep"
  /\ gen' = [gen EXCEPT !.pc = "loop", !.attempt = @ + 1]
  /\ UNCHANGED <<Manager, solver, wf, twin, statusManager, main>>

\* the loop is over: the throw of line 170 (Japanese in the source)
GenerateSolutionThrows ==
  /\ gen.pc = "loop"
  /\ gen.attempt > gen.maxRetries
  /\ gen' = [gen EXCEPT !.pc = "threw",
                        !.error = "solution generation failed (" \o NatToString(gen.maxRetries)
                                    \o " attempts): "
                                    \o (IF gen.lastError = None \/ gen.lastError[1] = ""
                                          THEN "unknown error" ELSE gen.lastError[1])]
  /\ UNCHANGED <<Manager, solver, wf, twin, statusManager, main>>

\* the steps the event loop is bound to take: timers expire, continuations run
SolverProgress ==
  \/ CallGeminiWithTimeout
  \/ \E k \in 1..(MaxRetriesOf(0) + MaxRetries) : TimerFires(k)
  \/ AttemptSettled
  \/ RetryDelay
  \/ GenerateSolutionThrows

NextSolver ==
  \/ SolverProgress
  \/ \E k \in 1..(MaxRetriesOf(0) + MaxRetries) : GenerateContentSettles(k)

SpecSolver == InitSolver /\ [][NextSolver]_vars /\ WF_vars(SolverProgress)

(***************************************************************************)
(* StatusCommentManager, and main and enhancedMain around it: every GitHub *)
(* API call succeeds or fails, every call of the solver, the workflow, the *)
(* test command and the report generator resolves or rejects               *)
(***************************************************************************)
Uncaught(result) == result

\* try { ... } catch (error) { console.error(...) } around a call
Caught(result) == [sm |-> result.sm, threw |-> FALSE]

\* createInitialComment(issueNumber): issueNumber 0 is the default null
CreateInitialComment(sm, issueNumber, ok) ==
  LET targetIssueNumber == IF issueNumber # 0 THEN issueNumber ELSE sm.issueNumber
      id == Len(sm.comments) + 1
  IN IF targetIssueNumber = 0 THEN [sm |-> sm, threw |-> TRUE]
     ELSE IF ok
       THEN [sm |-> [sm EXCEPT !.comments = Append(@, [status |-> "starting", note |-> FALSE]),
                               !.commentId = id,
                               !.calls = Append(@, [api |-> "createComment", id |-> id, ok |-> TRUE])],
             threw |-> FALSE]
     ELSE [sm |-> [sm EXCEPT !.calls = Append(@, [api |-> "createComment", id |-> 0, ok |-> FALSE])],
           threw |-> TRUE]

CreateFallbackCommentKeepsId(sm, status, ok) ==
  Caught(IF ok /\ sm.issueNumber # 0
           THEN [sm |-> [sm EXCEPT !.comments = Append(@, [status |-> status, note |-> TRUE]),
                                   !.calls = Append(@, [api |-> "createComment",
                                                        id |-> Len(sm.comments) + 1, ok |-> TRUE])],
                 threw |-> FALSE]
         ELSE [sm |-> [sm EXCEPT !.calls = Append(@, [api |-> "createComment", id |-> 0,
                                                      ok |-> FALSE])],
               threw |-> TRUE])

\* createFallbackComment(status, data, originalError): the comment is created
\* on this.issueNumber, which the API refuses when undefined
CreateFallbackComment(sm, status, ok) ==
  LET id == Len(sm.comments) + 1
  IN Caught(IF ok /\ sm.issueNumber # 0
              THEN [sm |-> [sm EXCEPT !.comments = Append(@, [status |-> status, note |-> TRUE]),
                                      !.commentId = id,
                                      !.calls = Append(@, [api |-> "createComment", id |-> id,
                                                           ok |-> TRUE])],
                    threw |-> FALSE]
            ELSE [sm |-> [sm EXCEPT !.calls = Append(@, [api |-> "createComment", id |-> 0,
                                                         ok |-> FALSE])],
                  threw |-> TRUE])

\* updateStatus(status, data): createOk, updateOk and fallbackOk are the
\* outcomes of the API calls it makes
UpdateStatus(sm, status, createOk, updateOk, fallbackOk) ==
  LET started == [sm EXCEPT !.status = status, !.prev = sm.commentId, !.calls = <<>>]
      created == IF started.commentId = 0
                   THEN Caught(CreateInitialComment(started, 0, createOk))
                 ELSE [sm |-> started, threw |-> FALSE]
      id == created.sm.commentId
  IN IF created.threw THEN created
     ELSE IF id = 0 THEN created
     ELSE IF updateOk
       THEN [sm |-> [created.sm EXCEPT !.comments[id] = [status |-> status, note |-> FALSE],
                                       !.calls = Append(@, [api |-> "updateComment", id |-> id,
                                                            ok |-> TRUE])],
             threw |-> FALSE]
     ELSE CreateFallbackComment([created.sm EXCEPT
                                   !.calls = Append(@, [api |-> "updateComment", id |-> id,
                                                        ok |-> FALSE])],
                                status, fallbackOk)

\* findExistingGeminiComment(issueNumber): the newest comment of the issue
\* with 'Gemini AI' in its body, every status comment having it
FindExistingGeminiComment(sm, ok) ==
  IF ok /\ Len(sm.comments) > 0 THEN [sm EXCEPT !.commentId = Len(sm.comments)] ELSE sm

\* if (statusManager) await statusManager.updateStatus(status, ...), api
\* being the outcomes of the API calls
Reported(status, api) ==
  IF main.manager
    THEN UpdateStatus(statusManager, status, api.create, api.update, api.fallback)
  ELSE [sm |-> statusManager, threw |-> FALSE]

\* control reaches the catch block with the error
Throw(m, message) == [m EXCEPT !.pc = "catch", !.error = message]

\* main(github, context) or enhancedMain(github, context) is called on an
\* issue with or without an earlier status comment, the event carrying the
\* issue or not
InitMain ==
  /\ NewManager(EmptyMap, WithEnv(CHOOSE e \in ManagerEnvironments :
                                    e.SAFETY_MODE = "normal" /\ e.KEEP_BACKUPS = "" /\ e.DRY_RUN = "",
                                  WorkflowEnvOff))
  /\ solver = NoSolver
  /\ wf = NoWorkflow
  /\ twin = NoTwin
  /\ gen = NoGen
  /\ \E issueNumber \in {0, 1}, earlier \in {<<>>, <<[status |-> "completed", note |-> FALSE]>>} :
       statusManager = [NoStatusManager EXCEPT !.issueNumber = issueNumber, !.comments = earlier]
  /\ \E entry \in {"main", "enhancedMain"}, github \in BOOLEAN :
       /\ entry = "enhancedMain" => github
       /\ main = [NoMain EXCEPT !.entry = entry, !.github = github, !.pc = "start"]

\* main, lines 14-38: the configuration, the status manager, the comment to
\* reuse or to create, the starting status
MainStart ==
  /\ main.entry = "main"
  /\ main.pc = "start"
  /\ \E valid \in BOOLEAN, api \in [list : BOOLEAN, create : BOOLEAN, update : BOOLEAN, fallback : BOOLEAN] :
       LET found == FindExistingGeminiComment(statusManager, api.list)
           created == IF found.commentId = 0
                        THEN CreateInitialComment(found, 1, api.create)
                      ELSE [sm |-> found, threw |-> FALSE]
           updated == UpdateStatus(created.sm, "starting", api.create, api.update, api.fallback)
       IN IF ~valid
            THEN main' = Throw(main, "invalid configuration") /\ UNCHANGED statusManager
          ELSE IF ~main.github
            THEN main' = [main EXCEPT !.pc = "analyzing"] /\ UNCHANGED statusManager
          ELSE IF created.threw
            THEN /\ main' = Throw([main EXCEPT !.manager = TRUE], "createComment failed")
                 /\ statusManager' = created.sm
          ELSE /\ statusManager' = updated.sm
               /\ main' = IF updated.threw
                            THEN Throw([main EXCEPT !.manager = TRUE], "updateStatus failed")
                          ELSE [main EXCEPT !.manager = TRUE, !.pc = "analyzing"]
  /\ UNCHANGED <<Manager, solver, wf, twin, gen>>

\* main, lines 43-79: the status of the phase, then analyzeIssue,
\* generateSolution or implementSolution, or, in the testing phase, the
\* call of runTestsWithRetry
MainPhase ==
  /\ main.entry = "main"
  /\ main.pc \in {"analyzing", "planning", "implementing", "testing"}
  /\ \E resolves \in BOOLEAN,
        api \in [list : BOOLEAN, create : BOOLEAN, update : BOOLEAN, fallback : BOOLEAN] :
       LET updated == Reported(main.pc, api)
       IN /\ statusManager' = updated.sm
          /\ main' = IF updated.threw THEN Throw(main, "updateStatus failed")
                     ELSE IF main.pc = "testing"
                       THEN [main EXCEPT !.pc = "runTestsWithRetry", !.testAttempt = 0]
                     ELSE IF ~resolves THEN Throw(main, main.pc \o " failed")
                     ELSE [main EXCEPT !.pc = IF main.pc = "analyzing" THEN "planning"
                                              ELSE IF main.pc = "planning" THEN "implementing"
                                              ELSE IF WorkflowConfig.runTests THEN "testing"
                                              ELSE "reporting"]
  /\ UNCHANGED <<Manager, solver, wf, twin, gen>>

\* runTestsWithRetry, one pass of the while loop, or its end and the throw
\* of main at line 82: the test command passes or fails; after a failure
\* with attempts left the retrying status is set and analyzeIssue,
\* generateSolution and implementSolution run, their error being caught
RunTestsWithRetry ==
  /\ main.pc = "runTestsWithRetry"
  /\ IF main.testAttempt < WorkflowConfig.testMaxRetries
       THEN \E passed \in BOOLEAN, api \in [list : BOOLEAN, create : BOOLEAN, update : BOOLEAN, fallback : BOOLEAN] :
              LET updated == Reported("retrying", api)
                  m == [main EXCEPT !.testAttempt = @ + 1,
                                    !.runs = Append(@, IF passed THEN "passed" ELSE "failed")]
              IN IF passed
                   THEN /\ main' = [m EXCEPT !.testPassed = Some(TRUE), !.pc = "reporting"]
                        /\ UNCHANGED statusManager
                 ELSE IF AttemptsLeft(m.testAttempt, WorkflowConfig.testMaxRetries)
                   THEN /\ statusManager' = updated.sm
                        /\ main' = IF updated.threw THEN Throw(m, "updateStatus failed")
                                   ELSE [m EXCEPT !.cycles = @ + 1]
                 ELSE main' = m /\ UNCHANGED statusManager
     ELSE /\ main' = Throw([main EXCEPT !.testPassed = Some(FALSE)], "tests failed")
          /\ UNCHANGED statusManager
  /\ UNCHANGED <<Manager, solver, wf, twin, gen>>

\* main, lines 87-104: the reporting status and generateReport
MainReporting ==
  /\ main.entry = "main"
  /\ main.pc = "reporting"
  /\ \E resolves \in BOOLEAN, api \in [list : BOOLEAN, create : BOOLEAN, update : BOOLEAN, fallback : BOOLEAN] :
       LET updated == Reported("reporting", api)
       IN /\ statusManager' = updated.sm
          /\ main' = IF updated.threw THEN Throw(main, "updateStatus failed")
                     ELSE IF ~resolves THEN Throw(main, "generateReport failed")
                     ELSE [main EXCEPT !.pc = "resolved"]
  /\ UNCHANGED <<Manager, solver, wf, twin, gen>>

\* the catch block of main: the error status, the error report, exit(1)
MainCatch ==
  /\ main.entry = "main"
  /\ main.pc = "catch"
  /\ \E api \in [list : BOOLEAN, create : BOOLEAN, update : BOOLEAN, fallback : BOOLEAN] :
       LET updated == Reported("error", api)
       IN /\ statusManager' = updated.sm
          /\ IF updated.threw
               THEN /\ main' = [main EXCEPT !.pc = "rejected", !.thrown = "updateStatus failed"]
                    /\ UNCHANGED fs
             ELSE /\ fs' = WriteFileSync(fs, "error_report_" \o WorkflowConfig.issueNumber \o ".json",
                                         "{error:" \o main.error \o "}")
                  /\ main' = [main EXCEPT !.pc = "exited", !.exitCode = Some(1)]
  /\ UNCHANGED <<dirs, now, env, dryRun, pendingOperations, backups, tx, last, solver, wf, twin, gen>>

\* enhancedMain, lines 20-45: the configuration and the issue data, the
\* status manager, its initial comment, the starting status
EnhancedMainStart ==
  /\ main.entry = "enhancedMain"
  /\ main.pc = "start"
  /\ \E valid \in BOOLEAN, api \in [list : BOOLEAN, create : BOOLEAN, update : BOOLEAN, fallback : BOOLEAN] :
       LET created == CreateInitialComment(statusManager, 0, api.create)
           updated == UpdateStatus(created.sm, "starting", api.create, api.update, api.fallback)
       IN IF ~valid
            THEN main' = Throw(main, "invalid configuration") /\ UNCHANGED statusManager
          ELSE IF created.threw
            THEN /\ main' = Throw([main EXCEPT !.manager = TRUE], "createComment failed")
                 /\ statusManager' = created.sm
          ELSE /\ statusManager' = updated.sm
               /\ main' = IF updated.threw
                            THEN Throw([main EXCEPT !.manager = TRUE], "updateStatus failed")
                          ELSE [main EXCEPT !.manager = TRUE, !.pc = "executing"]
  /\ UNCHANGED <<Manager, solver, wf, twin, gen>>

\* enhancedMain, lines 57-80: the executing status, workflow.execute(), the
\* report and the solution handler
EnhancedMainExecute ==
  /\ main.entry = "enhancedMain"
  /\ main.pc = "executing"
  /\ \E failure \in {"", "execute failed", "generateReport failed", "handle failed"},
        api \in [list : BOOLEAN, create : BOOLEAN, update : BOOLEAN, fallback : BOOLEAN] :
       LET updated == Reported("executing", api)
       IN /\ statusManager' = updated.sm
          /\ main' = IF updated.threw THEN Throw(main, "updateStatus failed")
                     ELSE IF failure # "" THEN Throw(main, failure)
                     ELSE [main EXCEPT !.pc = "resolved"]
  /\ UNCHANGED <<Manager, solver, wf, twin, gen>>

\* the catch block of enhancedMain: the error status, the log, throw error
EnhancedMainCatch ==
  /\ main.entry = "enhancedMain"
  /\ main.pc = "catch"
  /\ \E api \in [list : BOOLEAN, create : BOOLEAN, update : BOOLEAN, fallback : BOOLEAN] :
       LET updated == Reported("error", api)
       IN /\ statusManager' = updated.sm
          /\ main' = [main EXCEPT !.pc = "rejected",
                                  !.thrown = IF updated.threw THEN "updateStatus failed"
                                             ELSE main.error]
  /\ UNCHANGED <<Manager, solver, wf, twin, gen>>

NextMain ==
  \/ MainStart
  \/ MainPhase
  \/ RunTestsWithRetry
  \/ MainReporting
  \/ MainCatch
  \/ EnhancedMainStart
  \/ EnhancedMainExecute
  \/ EnhancedMainCatch

SpecMain == InitMain /\ [][NextMain]_vars

(***************************************************************************)
(* The two test loops: runTestsWithRetry of main.js, and runTests of the   *)
(* workflow inside its verification phase                                  *)
(***************************************************************************)
\* main is about to set the testing status, or execute() is about to start
\* the verification phase after an implementation of the planned solution
InitTests ==
  /\ \E e \in [SAFETY_MODE : {"normal"}, KEEP_BACKUPS : {""}, FORCE_OVERWRITE : {"false"},
               DRY_RUN : {""}, ENABLE_REVIEW : {""}, STRICT_MODE : {""},
               STRICT_VERIFICATION : {"", "true"}, RUN_LINTER : {""}] :
       NewManager([q \in {"/r/a.md"} |-> "A"], e)
  /\ twin = NoTwin
  /\ gen = NoGen
  /\ \E issue \in Issues, entry \in {"main", "execute"} :
       IF entry = "main"
         THEN /\ solver = NoSolver
              /\ wf = NoWorkflow
              /\ \E github \in BOOLEAN :
                   /\ main = [NoMain EXCEPT !.entry = "main", !.github = github,
                                            !.manager = github, !.pc = "testing"]
                   /\ statusManager = IF github
                                        THEN [NoStatusManager EXCEPT
                                                !.issueNumber = 1, !.commentId = 1,
                                                !.comments = <<[status |-> "implementing",
                                                                note |-> FALSE]>>]
                                      ELSE NoStatusManager
       ELSE /\ \E r \in GenerateSolutionResults[issue] :
                 /\ ~r.threw
                 /\ solver = Planned([NoSolver EXCEPT !.issue = issue], r)
            /\ wf = [NoWorkflow EXCEPT !.pc = "verification", !.pre = fs]
            /\ main = NoMain
            /\ statusManager = NoStatusManager

NextTests ==
  \/ MainPhase
  \/ RunTestsWithRetry
  \/ VerificationPhase
  \/ RunTests
  \/ RunTestsReimplementation
  \/ RunTestsResume
  \/ VerificationJoin
  \/ CreateBackupsStep("runTests")
  \/ ExecuteOperationStep("runTests")
  \/ FinishExecute("runTests")
  \/ RollbackStep("runTests")

SpecTests == InitTests /\ [][NextTests]_vars

(***************************************************************************)
(* Claims                                                                  *)
(***************************************************************************)
\* the transaction failed while executing an operation and rolled back
RolledBack == tx["main"].pc = "threw" /\ tx["main"].failedAt > 0

\* C1 (as claimed): after a rollback every path of the batch has its
\* pre-transaction existence and content, whatever the declared actions and
\* the initial existence of the targets.
C1_RollbackRestoresEveryPath ==
  RolledBack =>
    \A j \in 1..Len(tx["main"].ops) :
       FileState(fs, tx["main"].ops[j].path) = FileState(tx["main"].pre, tx["main"].ops[j].path)

\* the batch holds an operation that validateAllOperations reports
HasInvalidOperation(ops) == \E j \in 1..Len(ops) : ValidationErrorOf(ops[j]) # ""

\* C2: when an operation of the batch fails validation, no file, directory
\* or backup is created, changed or removed and the ledgers stay empty; the
\* call that ran validateAllOperations (no dry run) has thrown, and not from
\* the execute step.
C2_InvalidBatchTouchesNothing ==
  (tx["main"].pc # "idle" /\ HasInvalidOperation(tx["main"].ops)) =>
    /\ fs = tx["main"].pre
    /\ dirs = tx["main"].preDirs
    /\ backups = EmptyMap
    /\ pendingOperations = <<>>
    /\ ~dryRun => (tx["main"].pc = "threw" /\ tx["main"].failedAt = 0)

\* C2 witness: a thrown validation failure of a batch with a valid first
\* operation that would have changed a file
C2_Witness ==
  /\ tx["main"].pc = "threw" /\ tx["main"].failedAt = 0 /\ ~dryRun
  /\ Len(tx["main"].ops) = 2
  /\ ValidationErrorOf(tx["main"].ops[1]) = "" /\ ValidationErrorOf(tx["main"].ops[2]) # ""
  /\ tx["main"].ops[1].action = "delete" /\ FileState(fs, tx["main"].ops[1].path) # None

\* the last file operation was modifyFile with a plain string as payload
StringModify == last.fn = "modifyFile" /\ last.payload.k = "str"

C9_DryRunTouchesNothing ==
  (env.DRY_RUN = "true" /\ tx["main"].pc # "idle") =>
    /\ tx["main"].pc = "returned"
    /\ fs = tx["main"].pre
    /\ dirs = tx["main"].preDirs
    /\ backups = EmptyMap
    /\ pendingOperations = <<>>

\* C9 witness: a dry run of a valid batch of two operations on existing files
C9_Witness ==
  /\ env.DRY_RUN = "true" /\ dryRun /\ tx["main"].pc = "returned" /\ Len(tx["main"].ops) = 2
  /\ ~HasInvalidOperation(tx["main"].ops)
  /\ tx["main"].ops[1].action = "delete" /\ tx["main"].ops[2].action = "modify"
  /\ FileState(fs, tx["main"].ops[1].path) # None

\* the path has a '..' segment
HasParentSegment(p) == \E i \in 1..Len(Split(p)) : Split(p)[i] = ".."

\* the absolute path is the working directory or lies below it
InsideRoot(abs) == abs = ProjectRoot \/ StartsWith(abs, ProjectRoot \o "/")

\* the reasons isPathSafe gives for a path it refuses as not contained
PathReasons == {"Path is outside project directory", "Path contains parent directory reference"}

\* C8 (as claimed): every operation whose path has a '..' segment or resolves
\* outside the project root is refused by validateFileOperation with a
\* path-related reason, and no transaction creates or changes a file outside
\* the project root.
C8_PathContainment ==
  /\ \A j \in 1..Len(tx["main"].ops) :
        LET op == tx["main"].ops[j] IN
        (HasParentSegment(op.path) \/ ~InsideRoot(PathResolve(op.path))) =>
          /\ ~ValidateFileOperation(op).valid
          /\ ValidateFileOperation(op).reason \in PathReasons
  /\ tx["main"].pc # "idle" =>
        \A q \in DOMAIN fs :
           InsideRoot(q) \/ (q \in DOMAIN tx["main"].pre /\ fs[q] = tx["main"].pre[q])

\* a safeExecute call that has started and has not settled
InProgress(task) == tx[task].pc \in {"backup", "exec", "rollback"}

\* a retained backup holds the body: a file of the backup directory named
\* after the path's base name
RetainedBackup(p, body) ==
  \E q \in DOMAIN fs :
     StartsWith(q, BackupDir \o "/" \o PathBasename(p) \o ".") /\ fs[q] = body

\* C3 (as claimed): when execute() has failed after one or more safeExecute
\* transactions returned, then after handleError every path those
\* transactions touched has its pre-workflow existence and content, or
\* existed before the workflow and a retained backup still holds its
\* pre-workflow content.
C3_FailedWorkflowLeavesTreeRestorable ==
  (wf.pc = "failed" /\ wf.committed > 0) =>
    \A p \in wf.touched :
       \/ FileState(fs, p) = FileState(wf.pre, p)
       \/ FileState(wf.pre, p) # None /\ RetainedBackup(p, FileState(wf.pre, p)[1])

\* C7 (as claimed): the files of every safeExecute call of the workflow are
\* the files of the solver's solution, and SolutionValidator.validateSolution
\* accepts that solution.
C7_OnlyValidatedSolutionsExecuted ==
  \A task \in Tasks :
     tx[task].pc # "idle" =>
       /\ tx[task].ops = FilesOf(solver.solution[1])
       /\ ValidateSolution(solver.solution[1]).valid

\* C10: within one run of execute() at most one safeExecute call is in
\* progress at any time.
C10_AtMostOneTransactionInProgress ==
  Cardinality({task \in Tasks : InProgress(task)}) <= 1

\* the re-implementation of runTests executes its operations while the
\* linter, started in parallel, is still running and an earlier transaction
\* of the run has returned
C10_Witness ==
  /\ wf.pc = "verification.await"
  /\ tx["runTests"].pc = "exec" /\ tx["runTests"].i = 1 /\ Len(tx["runTests"].ops) > 0
  /\ wf.steps["runLinter"] = "running"
  /\ wf.committed >= 1

\* the solution has a modify entry whose content is a string
HasStringModify(solution) ==
  \E j \in 1..Len(FilesOf(solution)) :
     FilesOf(solution)[j].action = "modify" /\ FilesOf(solution)[j].content.k = "str"

\* C4 (as claimed): validateSolution returns valid=false for every solution
\* with a modify entry whose content is a string, the empty string
\* included, with or without changes.
C4_StringModifyIsInvalid ==
  (solver.validation # None /\ HasStringModify(solver.solution[1])) =>
    ~solver.validation[1].valid

\* the files outside the backup directory
WorkingFiles(f) == {q \in DOMAIN f : ~StartsWith(q, BackupDir \o "/")}

\* C6 (as claimed): two transactions that are the same but for the changes
\* texts of their operations leave every file with the same existence and
\* content.
C6_ChangesNeverExecuted ==
  (twin.stage = "second" /\ Settled("main")) =>
    /\ WorkingFiles(fs) = WorkingFiles(twin.fs)
    /\ \A q \in WorkingFiles(fs) : fs[q] = twin.fs[q]

\* the number of operations of the call that executeOperations has applied
Applied(task) == IF tx[task].pc = "rollback" THEN tx[task].failedAt - 1 ELSE tx[task].i - 1

\* C11 (as claimed): operations are executed in input order and execution
\* stops at the first failure; at every moment of the execute step, and when
\* the step has stopped at a failing operation, the pending ledger is exactly
\* the prefix of the input list that has been applied, one record per entry.
C11_LedgerIsAppliedPrefix ==
  \A task \in Tasks :
     tx[task].pc \in {"exec", "rollback"} =>
       /\ pendingOperations = SubSeq(tx[task].ops, 1, Applied(task))
       /\ Len(tx[task].results) = Applied(task)

\* C14 (as claimed): whenever no safeExecute call is in progress the pending
\* ledger is empty.
C14_LedgerEmptyBetweenTransactions ==
  (\A task \in Tasks : ~InProgress(task)) => pendingOperations = <<>>

\* the sequence in reverse order
Reversed(seq) == [j \in 1..Len(seq) |-> seq[Len(seq) + 1 - j]]

\* the sequence without the entries at the indices of skip
Without(seq, skip) ==
  LET keep == {j \in 1..Len(seq) : j \notin skip}
  IN [k \in 1..Cardinality(keep) |->
        seq[CHOOSE j \in keep : Cardinality({m \in keep : m < j}) = k - 1]]

\* the undo of one ledger entry: a created file is deleted if present, a
\* modified or deleted file is restored from the backup recorded for its path
\* if there is one
UndoneEntry(f, entry) ==
  LET q == PathResolve(entry.path) IN
  IF entry.action = "create"
    THEN [x \in DOMAIN f \ {q} |-> f[x]]
  ELSE IF entry.path \in DOMAIN backups /\ PathResolve(backups[entry.path]) \in DOMAIN f
    THEN [x \in DOMAIN f \cup {q} |-> IF x = q THEN f[PathResolve(backups[entry.path])] ELSE f[x]]
  ELSE f

RECURSIVE UndoneInOrder(_, _)
\* the undo of the entries, first to last
UndoneInOrder(f, entries) ==
  IF Len(entries) = 0 THEN f ELSE UndoneInOrder(UndoneEntry(f, Head(entries)), Tail(entries))

\* the absolute paths of the ledger
LedgerPaths == {PathResolve(pendingOperations[j].path) : j \in 1..Len(pendingOperations)}

\* C12: a rollback in which no undo fails undoes the pending ledger from its
\* last entry to its first (a Create entry deletes the file if present, a
\* Modify or Delete entry restores the file from the backup recorded for its
\* path if there is one), and touches no path outside the ledger.
C12_RollbackUndoesLedgerInReverse ==
  [][\A task \in Tasks :
       (tx[task].pc = "rollback" /\ tx'[task].pc = "threw" /\ tx'[task].undoFailed = {}) =>
         /\ fs' = UndoneInOrder(fs, Reversed(pendingOperations))
         /\ dirs' = dirs
         /\ \A q \in (DOMAIN fs \cup DOMAIN fs') \ LedgerPaths :
               q \in DOMAIN fs /\ q \in DOMAIN fs' /\ fs'[q] = fs[q]]_vars

\* C12 witness: a rollback of the ledger [delete a.md, create a.md], whose
\* undo in ledger order would leave a.md missing, has restored a.md
C12_Witness ==
  /\ tx["main"].pc = "threw" /\ tx["main"].failedAt = 3 /\ tx["main"].undoFailed = {}
  /\ tx["main"].ops[1] = FileAction("a.md", "delete", Absent, None)
  /\ tx["main"].ops[2] = FileAction("a.md", "create", StrC("X"), None)
  /\ FileState(tx["main"].pre, "a.md") = Some("A")
  /\ FileState(fs, "a.md") = Some("A")

\* C13: when undo steps of a rollback fail, every other ledger entry is still
\* undone, in reverse order; rollback does not throw: it empties the ledger
\* and safeExecute rejects with the failure of the operation that failed,
\* which names that operation's path.
C13_RollbackIsBestEffort ==
  [][\A task \in Tasks :
       (tx[task].pc = "rollback" /\ tx'[task].undoFailed # {}) =>
         /\ fs' = UndoneInOrder(fs, Reversed(Without(pendingOperations, tx'[task].undoFailed)))
         /\ pendingOperations' = <<>>
         /\ tx'[task].pc = "threw"
         /\ tx'[task].error = tx[task].error
         /\ StartsWith(tx'[task].error,
                       "operation failed (" \o tx[task].ops[tx[task].failedAt].path \o "): ")]_vars

\* C13 witness: the undo of the last ledger entry (create b.md) failed, the
\* entry before it (delete a.md) was still undone, and the call has thrown
\* the failure of the third operation
C13_Witness ==
  /\ tx["main"].pc = "threw" /\ tx["main"].failedAt = 3 /\ tx["main"].undoFailed = {2}
  /\ tx["main"].ops[1] = FileAction("a.md", "delete", Absent, None)
  /\ tx["main"].ops[2] = FileAction("b.md", "create", StrC("X"), None)
  /\ FileState(tx["main"].pre, "a.md") = Some("A")
  /\ FileState(fs, "a.md") = Some("A") /\ FileState(fs, "b.md") = Some("X")
  /\ StartsWith(tx["main"].error, "operation failed (a.md): ")

\* the call executed the one operation of its batch: the operation
Executed == Len(tx["main"].ops) = 1 /\ last.fn # "none"
TheOperation == tx["main"].ops[1]

\* the records safeExecute collected are the one record of the action
Recorded(action) == tx["main"].results = <<[action |-> action, path |-> TheOperation.path]>>

\* C15 (as claimed): Create on an existing file with a content that differs
\* from the file's succeeds in every safety mode, leaves exactly the requested
\* content and records 'modified'.
C15_CreateOverExistingReplaces ==
  (Executed /\ TheOperation.action = "create" /\ last.before # None
     /\ last.before # Some(TheOperation.content.s)) =>
    /\ ~last.threw
    /\ last.after = Some(TheOperation.content.s)
    /\ Recorded("modified")

\* C16 (as claimed): Create on an existing file with the file's own content
\* writes the file and leaves a content that differs from the previous one:
\* the requested content after a generated timestamp comment.
C16_CreateIdenticalStillChanges ==
  (Executed /\ TheOperation.action = "create" /\ last.before = Some(TheOperation.content.s)) =>
    /\ ~last.threw
    /\ last.after # last.before
    /\ \E t \in 0..MaxClock :
          last.after = Some(TimestampComment(TheOperation.path, t) \o TheOperation.content.s)

\* C17 (as claimed): a schema-valid Modify (a directive object, or no content
\* and the changes text) on a missing path succeeds, the file exists
\* afterwards and the record says 'created'.
C17_ModifyOnMissingCreates ==
  (Executed /\ TheOperation.action = "modify" /\ last.before = None
     /\ ValidateFileAction(TheOperation, 0) = <<>>) =>
    /\ ~last.threw
    /\ last.after # None
    /\ Recorded("created")

\* C18 (as claimed): a Modify with a well-formed directive object on a
\* contained, non-protected path with an allowed extension is accepted by
\* validateFileOperation, whatever the extension, and safeExecute does not
\* reject it at validation.
C18_DirectiveModifyIsAccepted ==
  (Len(tx["main"].ops) = 1 /\ TheOperation.action = "modify" /\ TheOperation.content.k = "obj"
     /\ ValidateModifyContent(TheOperation.content) = ""
     /\ IsPathSafe(TheOperation.path).valid /\ IsAllowedFileType(TheOperation.path).valid) =>
    /\ ValidateFileOperation(TheOperation).valid
    /\ ~(tx["main"].pc = "threw" /\ tx["main"].failedAt = 0)

\* the operation the execute step is about to apply
NextOperation == tx["main"].ops[tx["main"].i]
Executing == tx["main"].pc = "exec" /\ tx["main"].i <= Len(tx["main"].ops)

\* C19: a Delete on a path that does not exist changes no file or directory,
\* adds the record 'skipped' and lets the execute step go on with the next
\* operation: no failure, no rollback.
C19_DeleteMissingIsSkipped ==
  [][(Executing /\ NextOperation.action = "delete"
        /\ ~ExistsSync(fs, dirs, NextOperation.path)) =>
       /\ fs' = fs
       /\ dirs' = dirs
       /\ tx'["main"].pc = "exec"
       /\ tx'["main"].i = tx["main"].i + 1
       /\ tx'["main"].results =
            Append(tx["main"].results, [action |-> "skipped", path |-> NextOperation.path])]_vars

\* C19 witness: the batch [delete a.md, create b.md] on an empty tree has
\* returned: the delete was skipped and the create after it was applied
C19_Witness ==
  /\ tx["main"].pc = "returned" /\ ~dryRun /\ tx["main"].pre = EmptyMap
  /\ Len(tx["main"].ops) = 2
  /\ tx["main"].ops[1].action = "delete" /\ tx["main"].ops[2].action = "create"
  /\ tx["main"].results = <<[action |-> "skipped", path |-> "a.md"],
                            [action |-> "created", path |-> "b.md"]>>
  /\ FileState(fs, "a.md") = None /\ FileState(fs, "b.md") = Some("X")

\* C20: a Modify with the directive {type: append, content: X} on an existing
\* file with the body A leaves A, one newline, X; with {type: prepend,
\* content: X} it leaves X, one newline, A; the record is 'modified' and no
\* other file and no directory changes.
C20_AppendAndPrepend ==
  [][(Executing /\ NextOperation.action = "modify" /\ NextOperation.content.k = "obj"
        /\ NextOperation.content.type \in {Some("append"), Some("prepend")}
        /\ NextOperation.content.content # None
        /\ PathResolve(NextOperation.path) \in DOMAIN fs) =>
       /\ fs' = [fs EXCEPT ![PathResolve(NextOperation.path)] =
                   IF NextOperation.content.type = Some("append")
                     THEN @ \o "\n" \o NextOperation.content.content[1]
                   ELSE NextOperation.content.content[1] \o "\n" \o @]
       /\ dirs' = dirs
       /\ tx'["main"].results =
            Append(tx["main"].results, [action |-> "modified", path |-> NextOperation.path])]_vars

\* C20 witness: a prepend of X to a.md with the body A, next to b.md, has
\* been applied and the call has returned
C20_Witness ==
  /\ tx["main"].pc = "returned" /\ Executed
  /\ TheOperation.content.type = Some("prepend") /\ TheOperation.content.content = Some("X")
  /\ FileState(tx["main"].pre, "a.md") = Some("A")
  /\ FileState(fs, "a.md") = Some("X\nA") /\ FileState(fs, "b.md") = Some("B")
  /\ Recorded("modified")

\* the text with its first occurrence of from replaced by the literal text to
LiteralReplace(text, from, to) ==
  IF \E k \in 1..(Len(text) + 1) : At(text, k, from)
    THEN LET k == CHOOSE k \in 1..(Len(text) + 1) :
                    At(text, k, from) /\ \A m \in 1..(k - 1) : ~At(text, m, from)
         IN SubSeq(text, 1, k - 1) \o to \o SubSeq(text, k + Len(from), Len(text))
  ELSE text

\* C21 (as claimed): a Modify with {type: replace, from, to} on an existing
\* file replaces the first occurrence of from by the literal text to and
\* leaves the rest of the file as it is; when from does not occur the file is
\* unchanged; in both cases nothing is raised and the record is 'modified'.
C21_ReplaceIsLiteralFirstMatch ==
  [][(Executing /\ NextOperation.action = "modify" /\ NextOperation.content.k = "obj"
        /\ NextOperation.content.type = Some("replace")
        /\ NextOperation.content.from # None /\ NextOperation.content.to # None
        /\ PathResolve(NextOperation.path) \in DOMAIN fs) =>
       /\ fs' = [fs EXCEPT ![PathResolve(NextOperation.path)] =
                   LiteralReplace(@, NextOperation.content.from[1], NextOperation.content.to[1])]
       /\ tx'["main"].pc = "exec"
       /\ tx'["main"].results =
            Append(tx["main"].results, [action |-> "modified", path |-> NextOperation.path])]_vars

\* a Delete of a file named package.json, README.md or LICENSE
GuardedDelete(op) ==
  /\ op.action = "delete"
  /\ \E name \in {"package.json", "README.md", "LICENSE"} :
       op.path = name \/ EndsWith(op.path, "/" \o name)

\* C22: a batch with a Delete of package.json, README.md or LICENSE, in any
\* directory, is rejected by validation: the live call throws with an entry
\* for that path before any file, directory, backup or ledger is touched,
\* and the dry run marks the operation as failing.
C22_DeleteGuardAbortsTransaction ==
  \A j \in 1..Len(tx["main"].ops) :
    (tx["main"].pc # "idle" /\ GuardedDelete(tx["main"].ops[j])) =>
      IF dryRun
        THEN /\ tx["main"].pc = "returned"
             /\ ~tx["main"].simulated[j].validation.valid
             /\ fs = tx["main"].pre
      ELSE /\ tx["main"].pc = "threw"
           /\ tx["main"].failedAt = 0
           /\ Includes(tx["main"].error, tx["main"].ops[j].path \o ": ")
           /\ fs = tx["main"].pre
           /\ dirs = tx["main"].preDirs
           /\ backups = EmptyMap
           /\ pendingOperations = <<>>

\* a live batch whose second operation deletes s/README.md after a valid
\* modify has thrown with the guard's reason and a.md is as before
C22_Witness ==
  /\ ~dryRun
  /\ tx["main"].pc = "threw"
  /\ Len(tx["main"].ops) = 2
  /\ tx["main"].ops[1] = FileAction("a.md", "modify", AppendD("X"), None)
  /\ tx["main"].ops[2] = FileAction("s/README.md", "delete", Absent, None)
  /\ tx["main"].error = "validation failed: s/README.md: Cannot delete critical file: README.md"
  /\ FileState(fs, "a.md") = Some("A")
  /\ FileState(fs, "s/README.md") = Some("R")

RECURSIVE FailingEntries(_, _)
\* the 'path: reason' entries of the operations from the j-th on that fail
\* validation, in input order
FailingEntries(ops, j) ==
  IF j > Len(ops) THEN <<>>
  ELSE (IF ValidationErrorOf(ops[j]) # "" THEN <<ValidationErrorOf(ops[j])>> ELSE <<>>)
         \o FailingEntries(ops, j + 1)

\* C23: when a live batch fails validation, the error thrown by safeExecute
\* lists one 'path: reason' entry for each failing operation, in input
\* order, whatever failed before it, and none for a path whose operations
\* all passed.
C23_ValidationListsEveryFailure ==
  (~dryRun /\ tx["main"].pc # "idle" /\ HasInvalidOperation(tx["main"].ops)) =>
    /\ tx["main"].pc = "threw"
    /\ tx["main"].failedAt = 0
    /\ tx["main"].error = "validation failed: " \o JoinWith(FailingEntries(tx["main"].ops, 1), ", ")
    /\ \A j \in 1..Len(tx["main"].ops) :
         /\ ValidationErrorOf(tx["main"].ops[j]) # "" =>
              /\ StartsWith(ValidationErrorOf(tx["main"].ops[j]), tx["main"].ops[j].path \o ": ")
              /\ Includes(tx["main"].error, ValidationErrorOf(tx["main"].ops[j]))
         /\ (\A k \in 1..Len(tx["main"].ops) :
                tx["main"].ops[k].path = tx["main"].ops[j].path
                  => ValidationErrorOf(tx["main"].ops[k]) = "") =>
              ~Includes(tx["main"].error, tx["main"].ops[j].path \o ": ")

\* a batch of two operations that fail different checks has thrown with
\* both entries, in input order
C23_Witness ==
  /\ tx["main"].pc = "threw"
  /\ Len(tx["main"].ops) = 2
  /\ tx["main"].ops[1].path = "a.exe"
  /\ tx["main"].ops[2].path = "../x.md"
  /\ tx["main"].error = "validation failed: a.exe: File type .exe is not allowed, "
                          \o "../x.md: Path is outside project directory"

\* C25 (as claimed): within one transaction two different target paths never
\* share a backup file, also when they have the same base name in different
\* directories and are backed up at the same clock reading.
C25_BackupNamesDoNotCollide ==
  \A p, q \in DOMAIN backups :
    PathResolve(p) # PathResolve(q) => backups[p] # backups[q]

\* C30 (as claimed): the dry run marks an operation as passing validation
\* if and only if validateAllOperations of a live run on the same tree
\* accepts it.
C30_DryRunAgreesWithLiveValidation ==
  (dryRun /\ tx["main"].pc = "returned") =>
    /\ Len(tx["main"].simulated) = Len(tx["main"].ops)
    /\ \A j \in 1..Len(tx["main"].ops) :
         tx["main"].simulated[j].validation.valid <=> (ValidationErrorOf(tx["main"].ops[j]) = "")

\* the paths of the batch declared as modify or delete that were files when
\* the call started
BackupTargets(call) ==
  { call.ops[j].path : j \in { k \in 1..Len(call.ops) :
                                 /\ call.ops[k].action \in {"modify", "delete"}
                                 /\ PathResolve(call.ops[k].path) \in DOMAIN call.pre } }

\* C24 (as claimed): while the backups are taken no operation has been
\* executed and every file outside the backup directory is as the call found
\* it; when the first operation
\* starts executing, the backup map holds an entry for p if and only if the
\* batch declares modify or delete on p and p existed at backup time: none
\* for a missing target, none for a create.
C24_BackupsCoverModifyAndDelete ==
  \A task \in Tasks :
    /\ tx[task].pc = "backup" =>
         /\ tx[task].results = <<>>
         /\ \A q \in DOMAIN tx[task].pre :
              ~StartsWith(q, BackupDir) => (q \in DOMAIN fs /\ fs[q] = tx[task].pre[q])
    /\ (tx[task].pc = "exec" /\ tx[task].i = 1) =>
         /\ DOMAIN backups = BackupTargets(tx[task])
         /\ \A p \in DOMAIN backups : backups[p] \in DOMAIN fs

\* the files of the backup directory
BackupFiles == { q \in DOMAIN fs : StartsWith(q, BackupDir \o "/") }

\* C27 (as claimed): after a fully successful transaction with KEEP_BACKUPS
\* other than 'true' every backup file the transaction recorded has been
\* deleted, no file is left in the backup directory and the backup map is
\* empty; with KEEP_BACKUPS = 'true' the map and every backup file are kept;
\* in a failing transaction every recorded backup file exists until rollback
\* has run (and after it).
C27_BackupRetention ==
  /\ (tx["main"].pc = "returned" /\ ~dryRun /\ env.KEEP_BACKUPS # "true") =>
       (backups = EmptyMap /\ BackupFiles = {})
  /\ (tx["main"].pc = "returned" /\ ~dryRun /\ env.KEEP_BACKUPS = "true") =>
       /\ DOMAIN backups = BackupTargets(tx["main"])
       /\ \A p \in DOMAIN backups : backups[p] \in BackupFiles
  /\ (tx["main"].pc \in {"backup", "exec", "rollback"}
        \/ (tx["main"].pc = "threw" /\ tx["main"].failedAt > 0)) =>
       \A p \in DOMAIN backups : backups[p] \in BackupFiles

\* C26 (as claimed): when the backup of a path is gone or cannot be copied,
\* rollback does not report the path as restored: an entry is reported as
\* restored only if its undo did not fail.
C26_RestoreFailsLoudly ==
  (tx["main"].pc = "threw" /\ tx["main"].failedAt > 0) =>
    tx["main"].restored \cap tx["main"].undoFailed = {}

\* the directive has one of the tags of ModifyDirective and the fields the
\* tag requires
WellFormedDirective(c) ==
  /\ c.k = "obj"
  /\ c.type # None
  /\ c.type[1] \in {"append", "prepend", "replace", "full-replace"}
  /\ c.type[1] \in {"append", "prepend", "full-replace"} => c.content # None
  /\ c.type[1] = "replace" => (c.from # None /\ c.to # None)

\* the entry breaks a rule of FileAction: empty path, action outside
\* create/modify/delete, create without content, modify without content and
\* changes, modify with a content that is no well-formed directive (an empty
\* string counting as no content)
BreaksRule(entry) ==
  \/ entry.path = ""
  \/ entry.action \notin {"create", "modify", "delete"}
  \/ entry.action = "create" /\ ~Truthy(entry.content)
  \/ entry.action = "modify" /\ ~Truthy(entry.content) /\ entry.changes = None
  \/ entry.action = "modify" /\ Truthy(entry.content) /\ ~WellFormedDirective(entry.content)

\* C28 (as claimed): validateSolution returns valid=false exactly when the
\* solution is not an object or at least one files[] entry breaks a rule, and
\* the errors list has an entry for every entry that breaks one.
C28_SchemaGateIsAllOrNothing ==
  solver.validation # None =>
    LET solution == solver.solution[1]
        files == FilesOf(solution)
    IN /\ ~solver.validation[1].valid <=>
            (solution.k # "obj" \/ \E j \in 1..Len(files) : BreaksRule(files[j]))
       /\ \A j \in 1..Len(files) :
            BreaksRule(files[j]) =>
              \E k \in 1..Len(solver.validation[1].errors) :
                 StartsWith(solver.validation[1].errors[k], "files[" \o NatToString(j - 1) \o "]")

\* the file a directive is applied to
DirectiveTarget == [q \in {"/r/a.md"} |-> "A"]

\* C29 (as claimed): a Modify content object is accepted by the schema
\* validator if and only if its type is one of append, prepend, replace and
\* full-replace and it has the fields the tag requires, and every accepted
\* directive is applied by modifyFile without an 'Invalid changes format'
\* error.
C29_ValidatorAndExecutorAgreeOnTags ==
  (/\ solver.validation # None
   /\ Len(FilesOf(solver.solution[1])) = 1
   /\ FilesOf(solver.solution[1])[1].path # ""
   /\ FilesOf(solver.solution[1])[1].action = "modify"
   /\ FilesOf(solver.solution[1])[1].content.k = "obj") =>
    LET c == FilesOf(solver.solution[1])[1].content IN
    /\ solver.validation[1].valid <=> WellFormedDirective(c)
    /\ solver.validation[1].valid =>
         ~ModifyFile(DirectiveTarget, DirsOf(DirectiveTarget), env, "a.md", c).threw

\* the phases of execute() in their order
PhaseOrder == <<"analysis", "planning", "review", "implementation", "verification", "reporting">>

\* the rank of a phase of execute(), 0 for the phases runTests adds
PhaseRank(phase) ==
  IF \E r \in 1..Len(PhaseOrder) : PhaseOrder[r] = phase
    THEN CHOOSE r \in 1..Len(PhaseOrder) : PhaseOrder[r] = phase
  ELSE 0

\* C34: the checkpoints of the phases of execute() appear in the fixed order
\* analysis, planning, review (only with ENABLE_REVIEW=true), implementation,
\* verification, reporting, one checkpoint per executed phase; a phase has
\* its checkpoint only after every earlier phase completed; a failed phase
\* is the last one, handleError follows and the run ends as failed; no
\* safeExecute call of the implementation phase is entered and no
\* transaction is committed unless planning completed.
C34_PhasesRunInOrder ==
  LET cps == wf.checkpoints
      Top == { i \in 1..Len(cps) : PhaseRank(cps[i].phase) > 0 }
  IN /\ \A i, j \in Top : i < j => PhaseRank(cps[i].phase) < PhaseRank(cps[j].phase)
     /\ \A j \in Top :
          /\ cps[j].phase = "review" => env.ENABLE_REVIEW = "true"
          /\ \A r \in 1..(PhaseRank(cps[j].phase) - 1) :
               (PhaseOrder[r] # "review" \/ env.ENABLE_REVIEW = "true") =>
                 \E i \in Top : i < j /\ cps[i] = [phase |-> PhaseOrder[r], status |-> "completed"]
          /\ cps[j].status = "failed" =>
               /\ \A i \in Top : i <= j
               /\ wf.pc \in {"handleError", "failed"}
     /\ wf.pc \in {"handleError", "failed"} =>
          \E j \in Top : cps[j].status = "failed" /\ j = Len(cps)
     /\ wf.pc = "done" => \A j \in Top : cps[j].status = "completed"
     /\ (wf.pc \in {"implementation.await"} \/ wf.committed > 0) =>
          \E i \in Top : cps[i] = [phase |-> "planning", status |-> "completed"]

\* the workflow failed in its verification phase after analysis, planning
\* and implementation completed, and handleError has run
C34_Witness ==
  /\ wf.pc = "failed"
  /\ env.ENABLE_REVIEW = ""
  /\ Len(wf.checkpoints) >= 4
  /\ wf.checkpoints[1] = [phase |-> "analysis", status |-> "completed"]
  /\ wf.checkpoints[2] = [phase |-> "planning", status |-> "completed"]
  /\ wf.checkpoints[3] = [phase |-> "implementation", status |-> "completed"]
  /\ wf.checkpoints[Len(wf.checkpoints)] = [phase |-> "verification", status |-> "failed"]

\* C35 (as claimed): with ENABLE_REVIEW=true the review phase changes no
\* file: while it runs and when the implementation phase is about to start,
\* every file is as the workflow found it, no backup exists and nothing is
\* in the pending ledger.
C35_ReviewIsPreviewOnly ==
  (env.ENABLE_REVIEW = "true" /\ wf.pc \in {"review", "review.await", "implementation"}) =>
    /\ fs = wf.pre
    /\ backups = EmptyMap
    /\ pendingOperations = <<>>

\* C37 (as claimed): when safeExecute has returned or thrown, every file
\* named package.json, README.md or LICENSE that existed before the call
\* still exists.
C37_CriticalFilesSurvive ==
  tx["main"].pc \in {"returned", "threw"} =>
    \A q \in DOMAIN tx["main"].pre :
       PathBasename(q) \in {"package.json", "README.md", "LICENSE"} => q \in DOMAIN fs

\* C38 (as claimed): no file outside the backup directory ever holds a text
\* that matches one of the validator's dangerous patterns, the files holding
\* none before the call.
C38_NoDangerousTextOnDisk ==
  \A q \in WorkingFiles(fs) : DangerousPattern(fs[q]) = ""

\* the attempt whose promise is p gave a schema-valid solution
YieldsValidSolution(p) ==
  /\ p.state = "fulfilled"
  /\ p.response[1].kind = "text"
  /\ Trim(p.response[1].text) # ""
  /\ Parsed[solver.issue][p.response[1].text].validation.valid

\* the message of the error the attempt whose promise is p failed with
ApiErrorOf(p) ==
  IF p.state = "rejected" THEN p.message
  ELSE IF p.response[1].kind = "error" THEN "no candidates in the response"
  ELSE IF Trim(p.response[1].text) = "" THEN "empty response"
  ELSE ""

\* C31, the safety part: generateSolution has made one LLM call per attempt
\* begun and never more than maxRetries; no attempt before the current one
\* gave a schema-valid solution; it has returned exactly when the current
\* attempt gave one or the last attempt gave an invalid one; it has thrown
\* only after maxRetries calls whose last failed with an API error, and the
\* error names maxRetries and the message of that last error; when every
\* attempt failed with an API error it has thrown.
C31_Bounded ==
  /\ Len(gen.call) <= gen.maxRetries
  /\ solver.calls = Len(gen.call)
  /\ Len(gen.call) = (IF gen.pc \in {"loop", "threw"} THEN gen.attempt - 1 ELSE gen.attempt)
  /\ \A k \in 1..Len(gen.promise) :
       (k < gen.attempt \/ gen.pc = "threw") => ~YieldsValidSolution(gen.promise[k])
  /\ gen.pc = "returned" =>
       \/ YieldsValidSolution(gen.promise[gen.attempt]) /\ solver.validation[1].valid
       \/ /\ gen.attempt = gen.maxRetries
          /\ gen.promise[gen.attempt].state = "fulfilled"
          /\ ApiErrorOf(gen.promise[gen.attempt]) = ""
  /\ gen.pc = "threw" =>
       /\ Len(gen.call) = gen.maxRetries
       /\ ApiErrorOf(gen.promise[gen.maxRetries]) # ""
       /\ gen.error = "solution generation failed (" \o NatToString(gen.maxRetries)
                        \o " attempts): " \o ApiErrorOf(gen.promise[gen.maxRetries])
  /\ (gen.pc \in {"returned", "threw"}
        /\ \A k \in 1..Len(gen.promise) : ApiErrorOf(gen.promise[k]) # "") => gen.pc = "threw"

\* C31: C31_Bounded always holds, no call is made once generateSolution has
\* returned or thrown, and every generateSolution call returns or throws.
C31_GenerateSolutionTerminates ==
  /\ []C31_Bounded
  /\ [][gen.pc \in {"returned", "threw"} => (gen'.pc = gen.pc /\ Len(gen'.call) = Len(gen.call))]_vars
  /\ <>(gen.pc \in {"returned", "threw"})

\* two attempts failed with different API errors and generateSolution threw
\* naming 2 attempts and the second message
C31_Witness ==
  /\ gen.pc = "threw"
  /\ gen.maxRetries = 2
  /\ gen.promise[1].message = "Network error"
  /\ gen.promise[2].message = "Timeout"
  /\ gen.error = "solution generation failed (2 attempts): Timeout"

\* C32: the promise of an attempt is settled once and keeps its outcome;
\* a timer that expired found the call unsettled and rejected the promise
\* with the timeout error; a timer that was cancelled was cancelled by the
\* call settling, whose outcome is the promise's; a timer is armed exactly
\* while the promise is pending; the solution generateSolution returns was
\* parsed from the result of the current attempt, whose timer was cancelled.
C32_Race ==
  \A k \in 1..Len(gen.promise) :
    /\ gen.timer[k] = "armed" <=> gen.promise[k].state = "pending"
    /\ gen.timer[k] = "armed" => gen.call[k].state = "pending"
    /\ gen.timer[k] = "fired" =>
         gen.promise[k] = [state |-> "rejected", response |-> None, message |-> TimeoutMessage]
    /\ gen.timer[k] = "cleared" => gen.promise[k] = gen.call[k]
    /\ (gen.pc = "returned" /\ k = gen.attempt) =>
         /\ gen.timer[k] = "cleared"
         /\ LET parsed == Parsed[solver.issue][gen.call[k].response[1].text]
            IN IF YieldsValidSolution(gen.call[k])
                 THEN solver.solution = Some(parsed.solution)
               ELSE solver.solution = Some(parsed.atLast)

\* C32: C32_Race always holds and a settled promise never changes.
C32_CallRacesTimer ==
  /\ []C32_Race
  /\ [][\A k \in 1..Len(gen.promise) :
          gen.promise[k].state # "pending" => gen'.promise[k] = gen.promise[k]]_vars

\* the only attempt timed out, generateSolution threw the timeout error, and
\* the call resolved afterwards with a schema-valid solution that nobody used
C32_Witness ==
  /\ gen.pc = "threw"
  /\ gen.maxRetries = 1
  /\ gen.timer[1] = "fired"
  /\ YieldsValidSolution(gen.call[1])
  /\ gen.promise[1].message = TimeoutMessage
  /\ solver.solution = None
  /\ gen.error = "solution generation failed (1 attempts): " \o TimeoutMessage

\* C33: after every updateStatus(status): without a comment id it first
\* called createComment and, the comment created, updateComment on that
\* comment; with a comment id it called updateComment on that id; a failed
\* updateComment is followed by one createComment, and when that succeeds
\* commentId is the id of the new comment, which carries the status and the
\* note; whenever the last API call succeeded, the comment commentId names
\* shows the status.
C33_OneLiveStatusComment ==
  LET sm == statusManager
      log == statusManager.calls
  IN sm.status # "" =>
       /\ (sm.prev = 0 /\ log = <<>>) => (sm.issueNumber = 0 /\ sm.commentId = 0)
       /\ (sm.prev = 0 /\ log # <<>>) =>
            /\ log[1].api = "createComment"
            /\ log[1].ok => (Len(log) >= 2 /\ log[2].api = "updateComment" /\ log[2].id = log[1].id)
            /\ ~log[1].ok => (Len(log) = 1 /\ sm.commentId = 0)
       /\ sm.prev # 0 => (log # <<>> /\ log[1].api = "updateComment" /\ log[1].id = sm.prev)
       /\ \A j \in 1..Len(log) :
            log[j].api = "updateComment" =>
              IF log[j].ok
                THEN j = Len(log) /\ sm.commentId = log[j].id
              ELSE /\ Len(log) = j + 1
                   /\ log[j + 1].api = "createComment"
                   /\ log[j + 1].ok =>
                        /\ sm.commentId = log[j + 1].id
                        /\ sm.commentId = Len(sm.comments)
                        /\ sm.commentId # log[j].id
                        /\ sm.comments[sm.commentId] = [status |-> sm.status, note |-> TRUE]
                   /\ ~log[j + 1].ok => sm.commentId = log[j].id
       /\ (log # <<>> /\ log[Len(log)].ok) => sm.comments[sm.commentId].status = sm.status

\* an update of the comment of an earlier update failed and the fallback
\* comment, now the current one, shows the status the old comment lacks
C33_Witness ==
  /\ statusManager.prev = 1
  /\ Len(statusManager.calls) = 2
  /\ ~statusManager.calls[1].ok
  /\ statusManager.calls[2].ok
  /\ statusManager.commentId = 2
  /\ statusManager.status = "planning"
  /\ statusManager.comments = <<[status |-> "analyzing", note |-> FALSE],
                                [status |-> "planning", note |-> TRUE]>>

\* C39 (as claimed): when the catch block of main or enhancedMain is done,
\* the function has rejected with the error the block caught.
C39_HandlersRethrow ==
  main.pc \in {"exited", "rejected"} => (main.thrown = main.error /\ main.error # "")

\* C39 (amended): no updateStatus rejects, whichever API calls fail; when
\* its catch block is done, main has set the error status if it has a
\* status manager, written the error report with the message of the caught
\* error and exited with code 1 without rejecting, and enhancedMain has set
\* the error status and rejected with the error it caught.
C39_HandlersReportOriginalFailure ==
  /\ main.error # "updateStatus failed"
  /\ main.thrown # "updateStatus failed"
  /\ main.pc \in {"exited", "rejected"} =>
       /\ main.error # ""
       /\ main.manager => statusManager.status = "error"
       /\ main.entry = "main" =>
            /\ main.pc = "exited"
            /\ main.exitCode = Some(1)
            /\ main.thrown = ""
            /\ PathResolve("error_report_1.json") \in DOMAIN fs
            /\ fs[PathResolve("error_report_1.json")] = "{error:" \o main.error \o "}"
       /\ main.entry = "enhancedMain" =>
            /\ main.pc = "rejected"
            /\ main.thrown = main.error

\* the tests failed every time, and in the catch block of main both the
\* update of the status comment and the creation of the fallback comment
\* failed; main has written the report and exited with code 1
C39_Witness ==
  /\ main.entry = "main"
  /\ main.pc = "exited"
  /\ main.error = "tests failed"
  /\ main.exitCode = Some(1)
  /\ statusManager.status = "error"
  /\ Len(statusManager.calls) = 2
  /\ ~statusManager.calls[1].ok
  /\ ~statusManager.calls[2].ok

\* the number of failed runs among the first n of the sequence
RECURSIVE FailedBefore(_, _)
FailedBefore(runs, n) ==
  IF n = 0 THEN 0
  ELSE FailedBefore(runs, n - 1) + (IF n <= Len(runs) /\ runs[n] = "failed" THEN 1 ELSE 0)

\* the loop with the given runs and cycles, over or not, is within its
\* bounds: at most max runs, none after a passing one, and one cycle for
\* each failed run that is not run number max (the cycle of the newest
\* failed run may yet have to begin when pending)
WithinBounds(runs, cycles, max) ==
  /\ Len(runs) <= max
  /\ \A j \in 1..Len(runs) : runs[j] = "passed" => j = Len(runs)
  /\ cycles = FailedBefore(runs, IF Len(runs) < max THEN Len(runs) ELSE max - 1)

\* C36: both loops are within their bounds in every state.  When
\* runTestsWithRetry is over, it returned true exactly when the last run
\* passed, and false only after testMaxRetries failed runs.  When runTests of
\* the workflow is over, it is fulfilled exactly when the last run passed, and
\* rejected otherwise, after testMaxRetries failed runs or after a failed
\* phase of a cycle.
C36_TestLoopIsBounded ==
  /\ WithinBounds(main.runs, main.cycles, WorkflowConfig.testMaxRetries)
  /\ WithinBounds(wf.runs, wf.cycles, WorkflowConfig.testMaxRetries)
  /\ main.testPassed = Some(TRUE) => (main.runs # <<>> /\ main.runs[Len(main.runs)] = "passed")
  /\ main.testPassed = Some(FALSE) =>
       /\ Len(main.runs) = WorkflowConfig.testMaxRetries
       /\ \A j \in 1..Len(main.runs) : main.runs[j] = "failed"
       /\ main.pc = "catch"
  /\ (main.runs # <<>> /\ main.runs[Len(main.runs)] = "passed") => main.testPassed = Some(TRUE)
  /\ wf.steps["runTests"] = "fulfilled" => (wf.runs # <<>> /\ wf.runs[Len(wf.runs)] = "passed")
  /\ (wf.runs # <<>> /\ wf.runs[Len(wf.runs)] = "passed") => wf.steps["runTests"] = "fulfilled"
  /\ wf.steps["runTests"] = "rejected" =>
       /\ wf.runs # <<>>
       /\ \A j \in 1..Len(wf.runs) : wf.runs[j] = "failed"
       /\ \/ Len(wf.runs) = WorkflowConfig.testMaxRetries
          \/ \E j \in 1..Len(wf.checkpoints) :
                /\ wf.checkpoints[j].phase \in {"re-analysis", "re-planning", "re-implementation"}
                /\ wf.checkpoints[j].status = "failed"

\* every run of the workflow's runTests failed: it is rejected after
\* testMaxRetries runs and one cycle less
C36_Witness ==
  /\ wf.steps["runTests"] = "rejected"
  /\ Len(wf.runs) = WorkflowConfig.testMaxRetries
  /\ wf.cycles = WorkflowConfig.testMaxRetries - 1
  /\ \A j \in 1..Len(wf.checkpoints) : wf.checkpoints[j].status = "completed"

====
